---- MODULE Spec2Model ----
(***************************************************************************)
(* A model of the Obsidian vault server: the frontmatter codec             *)
(* (src/src/frontmatter_parser.py) and the vault manager                   *)
(* (src/src/vault_manager.py).                                             *)
(*                                                                         *)
(* A text is a sequence of one-character strings.  A path string is the    *)
(* sequence of its "/"-separated segments, so that "/a/b" is               *)
(* <<"", "a", "b">> and a leading "" stands for a leading "/".             *)
(***************************************************************************)
EXTENDS Integers, Sequences, FiniteSets, TLC

\* ------------------------------------------------------------------------
\* Characters and small text helpers
\* ------------------------------------------------------------------------
NL == "\n"

Dashes == <<"-", "-", "-">>

\* \s of the regular expression, over the characters the model uses
IsSpace(c) == c \in {" ", "\n", "\t"}

\* \w, the characters of keys and plain scalar values
WordChars == {"a", "b", "g", "s", "t", "x", "y"}

IsWord(s) == Len(s) > 0 /\ \A i \in 1..Len(s) : s[i] \in WordChars

SetMax(S) == CHOOSE m \in S : \A n \in S : n <= m

SetMin(S) == CHOOSE m \in S : \A n \in S : m <= n

Slice(t, i, j) == IF j < i THEN <<>> ELSE SubSeq(t, i, j)

StartsAt(t, i, p) ==
    /\ i + Len(p) - 1 <= Len(t)
    /\ \A j \in 1..Len(p) : t[i + j - 1] = p[j]

\* ------------------------------------------------------------------------
\* Metadata values.  A mapping is a sequence of [k, v] pairs with distinct
\* keys (a Python dict in insertion order); a value is a plain scalar
\* (t = "s"), a nested mapping of scalars (t = "m") or null (t = "n").
\* ------------------------------------------------------------------------
Scalar(s) == [t |-> "s", s |-> s, m |-> <<>>]

Nested(m) == [t |-> "m", s |-> <<>>, m |-> m]

Null == [t |-> "n", s |-> <<>>, m |-> <<>>]

Pair(k, v) == [k |-> k, v |-> v]

Keys(d) == {d[i].k : i \in 1..Len(d)}

\* d[key] for a key of d
Lookup(d, key) == d[CHOOSE i \in 1..Len(d) : d[i].k = key].v

\* dict.__setitem__: overwrite in place, or append a new key
DictSet(d, key, v) ==
    IF key \in Keys(d)
    THEN [i \in 1..Len(d) |-> IF d[i].k = key THEN Pair(key, v) ELSE d[i]]
    ELSE Append(d, Pair(key, v))

\* {**b, **a}: the keys of the first mapping win
RECURSIVE DictMergeOldWins(_, _)
DictMergeOldWins(a, b) ==
    IF b = <<>> THEN a
    ELSE DictMergeOldWins(IF Head(b).k \in Keys(a) THEN a
                          ELSE DictSet(a, Head(b).k, Head(b).v), Tail(b))

\* {**a, **b}
RECURSIVE DictMerge(_, _)
DictMerge(a, b) ==
    IF b = <<>> THEN a
    ELSE DictMerge(DictSet(a, Head(b).k, Head(b).v), Tail(b))

\* dict equality ignores the insertion order, at both levels
ValueEq(v, w) ==
    /\ v.t = w.t
    /\ v.s = w.s
    /\ Keys(v.m) = Keys(w.m)
    /\ \A key \in Keys(v.m) : Lookup(v.m, key) = Lookup(w.m, key)

DictEq(a, b) ==
    /\ Keys(a) = Keys(b)
    /\ \A key \in Keys(a) : ValueEq(Lookup(a, key), Lookup(b, key))

\* ------------------------------------------------------------------------
\* The YAML library as the parser uses it: yaml.dump(..., default_flow_style
\* = False, sort_keys = False) and yaml.safe_load, on block mappings of
\* plain scalars, one level of nesting, null, and a top-level plain scalar.
\* ------------------------------------------------------------------------
NullWord == <<"n", "u", "l", "l">>

DocEnd == <<".", ".", ".">>

DumpScalarLine(indent, k, s) == indent \o k \o <<":", " ">> \o s \o <<NL>>

RECURSIVE DumpNested(_)
DumpNested(m) ==
    IF m = <<>> THEN <<>>
    ELSE DumpScalarLine(<<" ", " ">>, Head(m).k, Head(m).v.s) \o DumpNested(Tail(m))

DumpPair(p) ==
    CASE p.v.t = "s" -> DumpScalarLine(<<>>, p.k, p.v.s)
      [] p.v.t = "n" -> DumpScalarLine(<<>>, p.k, NullWord)
      [] p.v.t = "m" -> p.k \o <<":", NL>> \o DumpNested(p.v.m)

\* yaml.dump of a non-empty mapping: one block line per key, in dict order
RECURSIVE YamlDump(_)
YamlDump(d) == IF d = <<>> THEN <<>> ELSE DumpPair(Head(d)) \o YamlDump(Tail(d))

\* yaml.dump of a top-level plain string: the scalar and a document end mark
YamlDumpStr(s) == s \o <<NL>> \o DocEnd \o <<NL>>

\* str.split("\n")
RECURSIVE SplitLines(_)
SplitLines(t) ==
    LET Cut(i) == <<Slice(t, 1, i - 1)>> \o SplitLines(Slice(t, i + 1, Len(t)))
    IN  IF \A i \in 1..Len(t) : t[i] # NL THEN <<t>>
        ELSE Cut(SetMin({i \in 1..Len(t) : t[i] = NL}))

RECURSIVE Indent(_)
Indent(l) == IF l # <<>> /\ Head(l) = " " THEN 1 + Indent(Tail(l)) ELSE 0

\* the scanner's view of one line of a block mapping
LineTok(l) ==
    LET blankT == [kind |-> "blank", ind |-> 0, key |-> <<>>, val |-> Null]
        bad    == [blankT EXCEPT !.kind = "bad"]
        \* key ":" after, at indentation ind
        Entry(ind, key, after) ==
            IF ~IsWord(key) THEN bad
            ELSE IF after = <<>>
                 THEN [kind |-> "open", ind |-> ind, key |-> key, val |-> Null]
            ELSE IF Head(after) = " " /\ IsWord(Tail(after))
                 THEN [kind |-> "entry", ind |-> ind, key |-> key,
                       val |-> IF Tail(after) = NullWord THEN Null
                               ELSE Scalar(Tail(after))]
            ELSE bad
        AtColon(ind, rest, c) ==
            Entry(ind, Slice(rest, 1, c - 1), Slice(rest, c + 1, Len(rest)))
        Rest(ind, rest) ==
            IF \A i \in 1..Len(rest) : rest[i] # ":"
            THEN IF IsWord(rest) /\ ind = 0
                 THEN [blankT EXCEPT !.kind = "plain", !.key = rest]
                 ELSE bad
            ELSE AtColon(ind, rest, SetMin({i \in 1..Len(rest) : rest[i] = ":"}))
        Indented(ind) == Rest(ind, Slice(l, ind + 1, Len(l)))
    IN  IF \A i \in 1..Len(l) : IsSpace(l[i]) THEN blankT
        ELSE IF l = DocEnd THEN [blankT EXCEPT !.kind = "docend"]
        ELSE IF l = Dashes THEN [blankT EXCEPT !.kind = "docstart"]
        ELSE Indented(Indent(l))

\* the composer's state while it walks the lines of a block mapping
CloseOpen(st) ==
    IF st.open = <<>> THEN st
    ELSE [st EXCEPT !.d = DictSet(st.d, st.open,
                                  IF st.sub = <<>> THEN Null ELSE Nested(st.sub)),
                    !.open = <<>>, !.sub = <<>>, !.subInd = 0]

ComposeStep(st, tok) ==
    IF st.err THEN st
    ELSE IF tok.kind = "entry" /\ tok.ind = 0
         THEN [CloseOpen(st) EXCEPT !.d = DictSet(CloseOpen(st).d, tok.key, tok.val)]
    ELSE IF tok.kind = "open" /\ tok.ind = 0
         THEN [CloseOpen(st) EXCEPT !.open = tok.key]
    ELSE IF /\ tok.kind = "entry" /\ tok.ind > 0 /\ st.open # <<>>
            /\ (st.sub = <<>> \/ st.subInd = tok.ind)
         THEN [st EXCEPT !.sub = DictSet(st.sub, tok.key, tok.val), !.subInd = tok.ind]
    ELSE [st EXCEPT !.err = TRUE]

RECURSIVE Compose(_, _)
Compose(st, toks) ==
    IF toks = <<>> THEN CloseOpen(st) ELSE Compose(ComposeStep(st, Head(toks)), Tail(toks))

\* yaml.safe_load: kind "null" (None), "str" (a plain scalar), "map" or
\* "error" (yaml.YAMLError).  A leading "---" line is the document start mark
\* and a trailing "..." line the document end mark.
YamlLoad(t) ==
    LET none == [kind |-> "null", map |-> <<>>, str |-> <<>>]
        Result(toks, st) ==
            IF toks = <<>> THEN none
            ELSE IF Len(toks) = 1 /\ toks[1].kind = "plain"
                 THEN [none EXCEPT !.kind = "str", !.str = toks[1].key]
            ELSE IF st.err THEN [none EXCEPT !.kind = "error"]
            ELSE [none EXCEPT !.kind = "map", !.map = st.d]
        Load(toks) ==
            Result(toks, Compose([d |-> <<>>, open |-> <<>>, sub |-> <<>>, subInd |-> 0,
                                  err |-> FALSE], toks))
        DropEnd(toks1) ==
            Load(IF toks1 # <<>> /\ toks1[Len(toks1)].kind = "docend"
                 THEN Slice(toks1, 1, Len(toks1) - 1) ELSE toks1)
        DropStart(toks0) ==
            DropEnd(IF toks0 # <<>> /\ toks0[1].kind = "docstart" THEN Tail(toks0)
                    ELSE toks0)
        Scan(lines) ==
            DropStart(SelectSeq([i \in 1..Len(lines) |-> LineTok(lines[i])],
                                LAMBDA k : k.kind # "blank"))
    IN  Scan(SplitLines(t))

\* ------------------------------------------------------------------------
\* FrontmatterParser
\* ------------------------------------------------------------------------

\* the lengths k of a run matched by \s* at position i that leave a "\n" at
\* position i + k for the pattern's following \n
SpaceThenNL(t, i) ==
    {k \in 0..(Len(t) + 1 - i) :
        /\ i + k <= Len(t)
        /\ t[i + k] = NL
        /\ \A j \in i..(i + k - 1) : IsSpace(t[j])}

\* the positions e >= g at which "\n---\s*\n" matches
Closers(t, g) ==
    {e \in g..Len(t) : StartsAt(t, e, <<NL>> \o Dashes) /\ SpaceThenNL(t, e + 4) # {}}

\* the pattern without its final \s*\n: ^---\s*\n(.*?)\n---
FRONTMATTER_PATTERN_open_end(t) ==
    LET none == [matched |-> FALSE, group |-> <<>>, end |-> 0]
        Ends(g) == {e \in g..Len(t) : StartsAt(t, e, <<NL>> \o Dashes)}
        Close(g, e) == [matched |-> TRUE, group |-> Slice(t, g, e - 1), end |-> e + 3]
        Group(g) == Close(g, SetMin(Ends(g)))
        Open(k1s) == IF k1s = {} THEN none ELSE Group(4 + SetMax(k1s) + 1)
    IN  IF ~StartsAt(t, 1, Dashes) THEN none
        ELSE Open({k \in SpaceThenNL(t, 4) : Ends(4 + k + 1) # {}})

\* FRONTMATTER_PATTERN.match(text): ^---\s*\n(.*?)\n---\s*\n with DOTALL.
\* The first \s* is greedy and backtracks, the group is lazy, the last \s*
\* is greedy.  end is the index of the last character of the match.
FRONTMATTER_PATTERN(t) ==
    LET none == [matched |-> FALSE, group |-> <<>>, end |-> 0]
        Close(g, e) ==
            [matched |-> TRUE, group |-> Slice(t, g, e - 1),
             end |-> e + 4 + SetMax(SpaceThenNL(t, e + 4))]
        Group(g) == Close(g, SetMin(Closers(t, g)))
        Open(k1s) == IF k1s = {} THEN none ELSE Group(4 + SetMax(k1s) + 1)
    IN  IF ~StartsAt(t, 1, Dashes) THEN none
        ELSE Open({k \in SpaceThenNL(t, 4) : Closers(t, 4 + k + 1) # {}})

\* FrontmatterParser.parse.  status "ValueError" is the raise of line 47;
\* fmkind tells a mapping from the plain string yaml.safe_load may return.
parse(text) ==
    LET base == [status |-> "ok", frontmatter |-> <<>>, fmkind |-> "map", fmstr |-> <<>>,
                 content |-> text, has_frontmatter |-> FALSE]
        Loaded(body, y) ==
            IF y.kind = "error" THEN [base EXCEPT !.status = "ValueError"]
            ELSE IF y.kind = "str"
                 THEN [base EXCEPT !.fmkind = "str", !.fmstr = y.str, !.content = body,
                                   !.has_frontmatter = TRUE]
            ELSE [base EXCEPT !.frontmatter = y.map, !.content = body,
                              !.has_frontmatter = TRUE]
        Matched(m) ==
            IF ~m.matched THEN base
            ELSE Loaded(Slice(text, m.end + 1, Len(text)), YamlLoad(m.group))
    IN  Matched(FRONTMATTER_PATTERN(text))

\* FrontmatterParser.dump for a mapping
dump(frontmatter, content) ==
    IF frontmatter = <<>> THEN content
    ELSE Dashes \o <<NL>> \o YamlDump(frontmatter) \o Dashes \o <<NL, NL>> \o content

\* FrontmatterParser.dump when the caller passes the plain string that parse
\* returned as frontmatter (a non-empty str is truthy)
dumpStr(s, content) ==
    Dashes \o <<NL>> \o YamlDumpStr(s) \o Dashes \o <<NL, NL>> \o content

\* FrontmatterParser.update.  {**str, **dict} raises TypeError.
update(text, frontmatter) ==
    LET Merged(result, merged_frontmatter) ==
            [status |-> "ok", merged |-> merged_frontmatter,
             text |-> dump(merged_frontmatter, result.content)]
        Parsed(result) ==
            IF result.status # "ok"
            THEN [status |-> result.status, merged |-> <<>>, text |-> <<>>]
            ELSE IF result.fmkind = "str"
                 THEN [status |-> "TypeError", merged |-> <<>>, text |-> <<>>]
            ELSE Merged(result, DictMerge(result.frontmatter, frontmatter))
    IN  Parsed(parse(text))

\* ------------------------------------------------------------------------
\* State
\* ------------------------------------------------------------------------
VARIABLES
    vault_path,   \* VaultManager.vault_path, the canonical root
    pc,           \* "new" before the constructor ran, then "ready" or "failed"
    dirs,         \* the directories of the filesystem, as canonical paths
    files,        \* the regular files: canonical path -> text
    links,        \* the symbolic links: path -> target path
    last,         \* what the last call did: its operation, outcome and accesses
    writes,       \* the number of successful writes so far
    arg,          \* the input of a codec or path-resolution evaluation
    out           \* its result

vars == <<vault_path, pc, dirs, files, links, last, writes, arg, out>>

NoCall == [op |-> "none", path |-> <<>>, status |-> "ok", cause |-> "none", msg |-> "",
           target |-> <<>>, value |-> <<>>, accessed |-> {}]

fsvars == <<vault_path, pc, dirs, files, links, last, writes>>

\* ------------------------------------------------------------------------
\* Paths.  A canonical location is the sequence of names from the filesystem
\* root; <<>> is "/".  A path string is the sequence of its segments, each
\* followed by "/": <<"", "a">> is "/a", <<"a", "", "b">> is "a//b".
\* ------------------------------------------------------------------------
Parent(p) == IF p = <<>> THEN <<>> ELSE Slice(p, 1, Len(p) - 1)

\* Path.relative_to(root) succeeds
IsUnder(p, root) == Len(p) >= Len(root) /\ Slice(p, 1, Len(root)) = root

\* the path of p relative to root, for a p under root
RelativeTo(p, root) == Slice(p, Len(root) + 1, Len(p))

\* str.lstrip("/")
RECURSIVE lstrip(_)
lstrip(filepath) ==
    IF filepath # <<>> /\ Head(filepath) = "" THEN lstrip(Tail(filepath)) ELSE filepath

\* lexical normalisation only (os.path.normpath): symbolic links are not
\* followed
RECURSIVE ResolveLexical(_, _)
ResolveLexical(cur, comps) ==
    IF comps = <<>> THEN cur
    ELSE IF Head(comps) \in {"", "."} THEN ResolveLexical(cur, Tail(comps))
    ELSE IF Head(comps) = ".." THEN ResolveLexical(Parent(cur), Tail(comps))
    ELSE ResolveLexical(Append(cur, Head(comps)), Tail(comps))

\* Path.resolve() (os.path.realpath, not strict): walk the components from
\* the canonical prefix cur; "" and "." are dropped, ".." pops the prefix, a
\* symbolic link is replaced by its target, a missing name is kept.
RECURSIVE Resolve(_, _)
Resolve(cur, comps) ==
    IF comps = <<>> THEN cur
    ELSE IF Head(comps) \in {"", "."} THEN Resolve(cur, Tail(comps))
    ELSE IF Head(comps) = ".." THEN Resolve(Parent(cur), Tail(comps))
    ELSE IF Append(cur, Head(comps)) \in DOMAIN links
         THEN Resolve(<<>>, links[Append(cur, Head(comps))] \o Tail(comps))
    ELSE Resolve(Append(cur, Head(comps)), Tail(comps))

\* the canonical location of a path from the filesystem root
Canon(p) == Resolve(<<>>, p)

\* _resolve_path with a lexical normalisation in place of Path.resolve()
_resolve_path_lexical(filepath) ==
    LET Checked(full_path) == [ok |-> IsUnder(full_path, vault_path), path |-> full_path]
    IN  Checked(ResolveLexical(<<>>, vault_path \o lstrip(filepath)))

\* VaultManager._resolve_path: ok = FALSE is the ValueError of line 48
_resolve_path(filepath) ==
    LET Checked(full_path) == [ok |-> IsUnder(full_path, vault_path), path |-> full_path]
    IN  Checked(Resolve(<<>>, vault_path \o lstrip(filepath)))

\* ------------------------------------------------------------------------
\* The codec applied to bounded inputs
\* ------------------------------------------------------------------------
MaxBodyLen == 3

MaxTailLen == 1

CodecChars == {"-", NL, " ", "x"}

Strings(n) == UNION {[1..k -> CodecChars] : k \in 0..n}

KeyA == <<"a">>

KeyB == <<"b">>

MetaKeys == {KeyA, KeyB}

MetaVals == {Scalar(<<"x">>),
             Nested(<<Pair(KeyA, Scalar(<<"x">>))>>),
             Nested(<<Pair(KeyB, Scalar(<<"y">>))>>)}

\* the mappings over MetaKeys, in either insertion order
Metas ==
    {<<>>}
    \cup {<<Pair(k, v)>> : k \in MetaKeys, v \in MetaVals}
    \cup {d \in {<<Pair(k1, v1), Pair(k2, v2)>> :
                    k1 \in MetaKeys, k2 \in MetaKeys, v1 \in MetaVals, v2 \in MetaVals} :
            d[1].k # d[2].k}

Chop(t) == Slice(t, 1, Len(t) - 1)

\* "a: : x", a mapping value where none is allowed
BadYaml == <<"a", ":", " ", ":", " ", "x">>

\* header contents: empty, blank, a plain scalar, malformed, and mappings
HeaderTexts ==
    {<<>>, <<" ">>, <<"x">>, BadYaml}
    \cup {Chop(YamlDump(m)) : m \in {d \in Metas : Len(d) = 1}}

Opens == {Dashes \o <<NL>>, Dashes \o <<" ", NL>>}

Closes == {<<NL>> \o Dashes \o <<NL>>, <<NL>> \o Dashes}

\* a body that itself reads as a header block
HeaderLike == {Dashes \o <<NL>> \o h \o <<NL>> \o Dashes \o <<NL>> : h \in HeaderTexts}

\* an opening line directly followed by a closing line
EmptyHeader == Dashes \o <<NL>> \o Dashes \o <<NL>>

\* texts with no header block, and texts that start like one
Texts ==
    Strings(MaxBodyLen)
    \cup {EmptyHeader \o t : t \in Strings(MaxTailLen + 1)}
    \cup {o \o h \o c \o t : o \in Opens, h \in HeaderTexts, c \in Closes,
                              t \in Strings(MaxTailLen) \cup HeaderLike}

CodecArgs ==
    [fn : {"dump"}, text : {<<>>}, meta : Metas, body : Strings(MaxBodyLen)]
    \cup [fn : {"update"}, text : Texts, meta : Metas, body : {<<>>}]
    \cup [fn : {"parse"}, text : Texts, meta : {<<>>}, body : {<<>>}]

NoOut == [op |-> "none", status |-> "ok", merged |-> <<>>, text |-> <<>>]

InitCodec ==
    /\ arg \in CodecArgs
    /\ out = NoOut
    /\ vault_path = <<>>
    /\ pc = "codec"
    /\ dirs = {}
    /\ files = <<>>
    /\ links = <<>>
    /\ last = NoCall
    /\ writes = 0

\* FrontmatterParser.dump(meta, body)
DoDump ==
    /\ arg.fn = "dump"
    /\ out.op = "none"
    /\ out' = [NoOut EXCEPT !.op = "dump", !.text = dump(arg.meta, arg.body)]
    /\ UNCHANGED <<arg, fsvars>>

\* FrontmatterParser.update(text, meta)
DoUpdate ==
    /\ arg.fn = "update"
    /\ out.op = "none"
    /\ \E r \in {update(arg.text, arg.meta)} :
          out' = [op |-> "update", status |-> r.status, merged |-> r.merged,
                  text |-> r.text]
    /\ UNCHANGED <<arg, fsvars>>

\* FrontmatterParser.parse(text); the result is read off out.text by parse
DoParse ==
    /\ arg.fn = "parse"
    /\ out.op = "none"
    /\ out' = [NoOut EXCEPT !.op = "parse", !.status = parse(arg.text).status,
                            !.text = arg.text]
    /\ UNCHANGED <<arg, fsvars>>

NextCodec == DoDump \/ DoUpdate \/ DoParse

SpecCodec == InitCodec /\ [][NextCodec]_vars

\* C5: parse(dump(M, B)) has a header, metadata M and body B, for every
\* non-empty mapping M and every body B.
C5_RoundTrip ==
    (out.op = "dump" /\ arg.meta # <<>>) =>
        LET r == parse(out.text)
        IN  /\ r.status = "ok"
            /\ r.has_frontmatter
            /\ DictEq(r.frontmatter, arg.meta)
            /\ r.content = arg.body

\* the metadata of the input text of an update
OldMeta == parse(arg.text).frontmatter

\* C7: the metadata update builds and serializes is the existing metadata
\* with every key of newMetadata inserted or overwritten: a key only in the
\* existing metadata keeps its value, a key of newMetadata takes the new
\* value whole (no deep merge), no key is duplicated, and with no header
\* block the result is exactly newMetadata; a non-empty merged mapping is
\* what parse reads back from the returned text.
C7_Merge ==
    (out.op = "update" /\ out.status = "ok") =>
        LET before == parse(arg.text)
            old    == before.frontmatter
            after  == parse(out.text)
        IN  /\ Keys(out.merged) = Keys(old) \cup Keys(arg.meta)
            /\ Cardinality(Keys(out.merged)) = Len(out.merged)
            /\ \A key \in Keys(arg.meta) :
                  ValueEq(Lookup(out.merged, key), Lookup(arg.meta, key))
            /\ \A key \in Keys(old) \ Keys(arg.meta) :
                  ValueEq(Lookup(out.merged, key), Lookup(old, key))
            /\ (~before.has_frontmatter => DictEq(out.merged, arg.meta))
            /\ (out.merged # <<>> =>
                  /\ after.has_frontmatter
                  /\ DictEq(after.frontmatter, out.merged))

\* an update overwrote a nested mapping by a different nested mapping
C7_Witness ==
    /\ out.op = "update" /\ out.status = "ok"
    /\ Len(out.merged) = 2
    /\ \E key \in Keys(OldMeta) \cap Keys(arg.meta) :
          /\ Lookup(OldMeta, key).t = "m"
          /\ Lookup(arg.meta, key).t = "m"
          /\ ~ValueEq(Lookup(OldMeta, key), Lookup(arg.meta, key))

\* C8: update with a non-empty mapping leaves the body as it was; for a
\* text with no header block the body is the whole text.
C8_BodyPreserved ==
    (out.op = "update" /\ out.status = "ok" /\ arg.meta # <<>>) =>
        parse(out.text).content = parse(arg.text).content

\* ------------------------------------------------------------------------
\* The filesystem the vault lives in
\* ------------------------------------------------------------------------
VaultDir == <<"v">>

OutsideDir == <<"o">>

PlainText == <<"x">>

SecretText == <<"y">>

\* a note with a header block
HeaderText == dump(<<Pair(KeyA, Scalar(<<"x">>))>>, PlainText)

\* a note whose header block is malformed
BadHeaderText == Dashes \o <<NL>> \o BadYaml \o <<NL>> \o Dashes \o <<NL>> \o PlainText

InitTexts == {PlainText, HeaderText, BadHeaderText}

\* the symbolic links a vault may hold: to a file outside, to a directory
\* outside
FileLink == <<"v", "l.md">> :> <<"o", "n.md">>

DirLink == <<"v", "ld">> :> <<"o">>

LinkLayouts == {<<>>, FileLink @@ DirLink}

InitDirs == {<<>>, VaultDir, <<"v", "d">>, <<"v", ".obsidian">>, OutsideDir}

InitFs ==
    /\ dirs = InitDirs
    /\ \E t \in InitTexts : files = (<<"v", "n.md">> :> t) @@ (<<"o", "n.md">> :> SecretText)
    /\ links \in LinkLayouts

IsDir(p) == p \in dirs

IsFile(p) == p \in DOMAIN files

\* Path.exists() of a canonical location
Exists(p) == IsDir(p) \/ IsFile(p)

\* ------------------------------------------------------------------------
\* Path resolution applied to bounded inputs
\* ------------------------------------------------------------------------
MaxPathLen == 3

Segs == {"", "..", "d", "n.md", "l.md", "ld", "o"}

PathStrings == UNION {[1..k -> Segs] : k \in 0..MaxPathLen}

InitPath ==
    /\ InitFs
    /\ vault_path = VaultDir
    /\ pc = "path"
    /\ last = NoCall
    /\ writes = 0
    /\ arg \in [fn : {"resolve"}, path : PathStrings]
    /\ out = NoOut

\* _resolve_path(path)
DoResolve ==
    /\ arg.fn = "resolve"
    /\ out.op = "none"
    /\ \E r \in {_resolve_path(arg.path)} :
          out' = [op |-> "resolve",
                  status |-> IF r.ok THEN "ok" ELSE "ValueError",
                  path |-> r.path]
    /\ UNCHANGED <<arg, fsvars>>

NextPath == DoResolve

SpecPath == InitPath /\ [][NextPath]_vars

\* C1: _resolve_path returns a canonical path that is the canonical root or
\* nested under it, or fails with the path-traversal error; what it returns
\* never leads outside the root.
C1_Confined ==
    out.op = "resolve" =>
        \/ out.status = "ValueError"
        \/ /\ out.status = "ok"
           /\ Canon(out.path) = out.path
           /\ IsUnder(out.path, Canon(VaultDir))

\* a path through a symbolic link that leaves the vault was rejected, and so
\* was one with a leading "/" and ".."
C1_Witness ==
    /\ out.op = "resolve" /\ out.status = "ValueError"
    /\ links # <<>>
    /\ arg.path \in {<<"l.md">>, <<"ld", "n.md">>, <<"", "..", "o">>}

\* ------------------------------------------------------------------------
\* VaultManager operations.  Each yields what the call leaves behind: the
\* exception class (status), the condition that raised it (cause) with the
\* message prefix, the resolved target, the returned value, the locations the
\* call read, listed or wrote, and the new files and directories.
\* ------------------------------------------------------------------------
Outcome(status, cause, msg, target) ==
    [status |-> status, cause |-> cause, msg |-> msg, target |-> target,
     value |-> <<>>, accessed |-> {}, files |-> files, dirs |-> dirs, wrote |-> FALSE]

Traversal == Outcome("ValueError", "path traversal", "Path traversal detected", <<>>)

\* a missing note reported as a ValueError
NotFoundAsValueError(t) == Outcome("ValueError", "note not found", "Note not found", t)

NotFound(t) == Outcome("FileNotFoundError", "note not found", "Note not found", t)

Ok(t) == Outcome("ok", "none", "", t)

Access(loc, how) == [loc |-> loc, how |-> how]

\* Path.read_text of an existing location that is a directory
IsADirectory(t) == Outcome("IsADirectoryError", "is a directory", "", t)

\* U+D83D, a surrogate on its own: a character UTF-8 has no encoding for
Surrogate == "U+D83D"

\* str.encode("utf-8") succeeds
Encodable(text) == \A i \in 1..Len(text) : text[i] # Surrogate

\* Path.write_text: open(mode="w") creates the file or empties it, then the
\* text is encoded and written; when the text cannot be encoded the write
\* raises UnicodeEncodeError and the file stays empty
Written(t, text, newdirs) ==
    [Outcome(IF Encodable(text) THEN "ok" ELSE "UnicodeEncodeError",
             IF Encodable(text) THEN "none" ELSE "text not encodable", "", t)
        EXCEPT !.files = [q \in DOMAIN files \cup {t} |->
                             IF q # t THEN files[q]
                             ELSE IF Encodable(text) THEN text ELSE <<>>],
               !.dirs = dirs \cup newdirs,
               !.accessed = {Access(t, "write")} \cup {Access(d, "mkdir") : d \in newdirs \ dirs},
               !.wrote = TRUE]

\* the proper prefixes of a location, itself included
Prefixes(p) == {Slice(p, 1, k) : k \in 0..Len(p)}

\* the ValueError of parse swallowed: the call returns normally
MalformedIgnored(t) == [Ok(t) EXCEPT !.accessed = {Access(t, "read")}]

\* the ValueError of parse, raised after the note was read
Malformed(t) ==
    [Outcome("ValueError", "malformed header", "Invalid YAML frontmatter", t)
        EXCEPT !.accessed = {Access(t, "read")}]

\* a note read and written back
Rewritten(t, text) ==
    [Written(t, text, {}) EXCEPT !.accessed = {Access(t, "read"), Access(t, "write")}]

read_note(filepath) ==
    LET Read(full_path) ==
            IF ~Exists(full_path) THEN NotFound(full_path)
            ELSE IF IsDir(full_path) THEN IsADirectory(full_path)
            ELSE [Ok(full_path) EXCEPT !.value = files[full_path],
                                       !.accessed = {Access(full_path, "read")}]
        Resolved(r) == IF ~r.ok THEN Traversal ELSE Read(r.path)
    IN  Resolved(_resolve_path(filepath))

\* create_note without the existence check of line 88
create_note_overwrite(filepath, content, frontmatter) ==
    LET full_text == IF frontmatter # <<>> THEN dump(frontmatter, content) ELSE content
        Create(full_path, parent) ==
            IF IsDir(full_path) THEN IsADirectory(full_path)
            ELSE IF \E q \in Prefixes(parent) : IsFile(q)
                 THEN Outcome("NotADirectoryError", "parent is a file", "", full_path)
            ELSE Written(full_path, full_text, Prefixes(parent))
        Resolved(r) == IF ~r.ok THEN Traversal ELSE Create(r.path, Parent(r.path))
    IN  Resolved(_resolve_path(filepath))

\* create_note that writes the body alone, whatever metadata is given
create_note_body_only(filepath, content, frontmatter) ==
    LET Create(full_path, parent) ==
            IF Exists(full_path)
            THEN Outcome("FileExistsError", "note exists", "Note already exists", full_path)
            ELSE IF IsFile(parent)
                 THEN Outcome("FileExistsError", "parent is a file", "", full_path)
            ELSE IF \E q \in Prefixes(parent) : IsFile(q)
                 THEN Outcome("NotADirectoryError", "parent is a file", "", full_path)
            ELSE Written(full_path, content, Prefixes(parent))
        Resolved(r) == IF ~r.ok THEN Traversal ELSE Create(r.path, Parent(r.path))
    IN  Resolved(_resolve_path(filepath))

create_note(filepath, content, frontmatter) ==
    LET full_text == IF frontmatter # <<>> THEN dump(frontmatter, content) ELSE content
        Create(full_path, parent) ==
            IF Exists(full_path)
            THEN Outcome("FileExistsError", "note exists", "Note already exists", full_path)
            \* parent.mkdir(parents=True, exist_ok=True) when a file is in the way
            ELSE IF IsFile(parent)
                 THEN Outcome("FileExistsError", "parent is a file", "", full_path)
            ELSE IF \E q \in Prefixes(parent) : IsFile(q)
                 THEN Outcome("NotADirectoryError", "parent is a file", "", full_path)
            ELSE Written(full_path, full_text, Prefixes(parent))
        Resolved(r) == IF ~r.ok THEN Traversal ELSE Create(r.path, Parent(r.path))
    IN  Resolved(_resolve_path(filepath))

\* edit_note that writes the new body where no note exists, without the
\* existence check of line 114
edit_note_create(filepath, content) ==
    LET Edit(full_path, result) ==
            IF result.status # "ok" THEN Malformed(full_path)
            ELSE IF ~result.has_frontmatter THEN Rewritten(full_path, content)
            ELSE IF result.fmkind = "str"
                 THEN Rewritten(full_path, dumpStr(result.fmstr, content))
            ELSE Rewritten(full_path, dump(result.frontmatter, content))
        Read(full_path) ==
            IF IsDir(full_path) THEN IsADirectory(full_path)
            ELSE IF ~IsFile(full_path)
                 THEN IF IsDir(Parent(full_path)) THEN Written(full_path, content, {})
                      ELSE NotFound(full_path)
            ELSE Edit(full_path, parse(files[full_path]))
        Resolved(r) == IF ~r.ok THEN Traversal ELSE Read(r.path)
    IN  Resolved(_resolve_path(filepath))

edit_note(filepath, content) ==
    LET Edit(full_path, result) ==
            IF result.status # "ok" THEN Malformed(full_path)
            ELSE IF ~result.has_frontmatter THEN Rewritten(full_path, content)
            ELSE IF result.fmkind = "str"
                 THEN Rewritten(full_path, dumpStr(result.fmstr, content))
            ELSE Rewritten(full_path, dump(result.frontmatter, content))
        Read(full_path) ==
            IF ~Exists(full_path) THEN NotFound(full_path)
            ELSE IF IsDir(full_path) THEN IsADirectory(full_path)
            ELSE Edit(full_path, parse(files[full_path]))
        Resolved(r) == IF ~r.ok THEN Traversal ELSE Read(r.path)
    IN  Resolved(_resolve_path(filepath))

read_frontmatter(filepath) ==
    LET Header(full_path, result) ==
            IF result.status # "ok" THEN Malformed(full_path)
            ELSE [Ok(full_path) EXCEPT
                     !.value = [kind |-> result.fmkind, map |-> result.frontmatter,
                                str |-> result.fmstr],
                     !.accessed = {Access(full_path, "read")}]
        Read(full_path) ==
            IF ~Exists(full_path) THEN NotFound(full_path)
            ELSE IF IsDir(full_path) THEN IsADirectory(full_path)
            ELSE Header(full_path, parse(files[full_path]))
        Resolved(r) == IF ~r.ok THEN Traversal ELSE Read(r.path)
    IN  Resolved(_resolve_path(filepath))

update_frontmatter(filepath, frontmatter) ==
    LET Update(full_path, u) ==
            IF u.status = "ValueError" THEN Malformed(full_path)
            ELSE IF u.status = "TypeError"
                 THEN [Outcome("TypeError", "header not a mapping", "", full_path)
                          EXCEPT !.accessed = {Access(full_path, "read")}]
            ELSE Rewritten(full_path, u.text)
        Read(full_path) ==
            IF ~Exists(full_path) THEN NotFound(full_path)
            ELSE IF IsDir(full_path) THEN IsADirectory(full_path)
            ELSE Update(full_path, update(files[full_path], frontmatter))
        Resolved(r) == IF ~r.ok THEN Traversal ELSE Read(r.path)
    IN  Resolved(_resolve_path(filepath))

\* ------------------------------------------------------------------------
\* Directory scans
\* ------------------------------------------------------------------------
Last(p) == p[Len(p)]

\* the names with the suffix ".md"
MdNames == {"n.md", "l.md"}

\* the names that start with "."
DotNames == {".obsidian"}

\* the names in code-point order, as str compares them
NameOrder == <<".obsidian", "d", "l.md", "ld", "n.md", "o", "v">>

NameRank(n) == CHOOSE i \in 1..Len(NameOrder) : NameOrder[i] = n

\* Path.__lt__: the parts compared as lists
RECURSIVE PathLess(_, _)
PathLess(p, q) ==
    IF q = <<>> THEN FALSE
    ELSE IF p = <<>> THEN TRUE
    ELSE IF Head(p) # Head(q) THEN NameRank(Head(p)) < NameRank(Head(q))
    ELSE PathLess(Tail(p), Tail(q))

\* sorted(paths): the path at position i has i - 1 paths before it
Sorted(S) ==
    [i \in 1..Cardinality(S) |->
        CHOOSE p \in S : Cardinality({q \in S : PathLess(q, p)}) = i - 1]

\* os.scandir / Path.iterdir of the directory at canonical location d: the
\* directories, files and symbolic links directly in it
Entries(d) ==
    {p \in (dirs \cup DOMAIN files \cup DOMAIN links) \ {<<>>} : Parent(p) = d}

\* the directories rglob walks from a directory: the recursive wildcard does
\* not descend into symbolic links
WalkDirs(start) == {d \in dirs : IsUnder(d, start)}

\* Path.rglob("*.md") from a canonical location: every entry with the
\* suffix in a walked directory, whatever its type
rglob_md(start) ==
    IF ~IsDir(start) THEN {}
    ELSE {p \in UNION {Entries(d) : d \in WalkDirs(start)} : Last(p) \in MdNames}

\* list_notes with glob("*.md") in place of rglob: the directory itself only
list_notes_shallow(directory) ==
    LET Listed(dir_path, listed, order) ==
            [Ok(dir_path) EXCEPT
                !.value = [i \in 1..Len(order) |-> RelativeTo(order[i], vault_path)],
                !.accessed = {Access(dir_path, "list")}
                             \cup {Access(Canon(p), "stat") : p \in listed}]
        Found(dir_path, listed) == Listed(dir_path, listed, Sorted(listed))
        Walk(dir_path) ==
            IF ~Exists(dir_path) THEN Ok(dir_path)
            ELSE Found(dir_path, {p \in Entries(dir_path) :
                                     Last(p) \in MdNames /\ Exists(Canon(p))})
        Resolved(r) == IF ~r.ok THEN Traversal ELSE Walk(r.path)
    IN  Resolved(_resolve_path(directory))

list_notes(directory) ==
    LET Listed(dir_path, listed, order) ==
            [Ok(dir_path) EXCEPT
                !.value = [i \in 1..Len(order) |-> RelativeTo(order[i], vault_path)],
                !.accessed = {Access(d, "list") : d \in WalkDirs(dir_path)}
                             \cup {Access(Canon(p), "stat") : p \in listed}]
        \* md_file.stat() follows a link and fails on a dangling one
        Found(dir_path, listed) == Listed(dir_path, listed, Sorted(listed))
        Walk(dir_path) ==
            IF ~Exists(dir_path) THEN Ok(dir_path)
            ELSE Found(dir_path, {p \in rglob_md(dir_path) : Exists(Canon(p))})
        Resolved(r) == IF ~r.ok THEN Traversal ELSE Walk(r.path)
    IN  Resolved(_resolve_path(directory))

\* U+0130, the capital I with a dot above, and U+0307, the combining dot
DottedI == "U+0130"

CombiningDot == "U+0307"

\* str.lower() of one character: U+0130 is the one character whose lower
\* case is two characters long
Lower(c) ==
    IF c = "X" THEN <<"x">>
    ELSE IF c = "Y" THEN <<"y">>
    ELSE IF c = DottedI THEN <<"i", CombiningDot>>
    ELSE <<c>>

\* str.lower()
RECURSIVE LowerText(_)
LowerText(t) ==
    LET Halves(mid) == LowerText(SubSeq(t, 1, mid)) \o LowerText(SubSeq(t, mid + 1, Len(t)))
    IN  IF t = <<>> THEN <<>>
        ELSE IF Len(t) = 1 THEN Lower(t[1])
        ELSE Halves(Len(t) \div 2)

\* str.find: the index (from 0) of the first occurrence, or -1
Find(t, q) ==
    LET First(hits) == IF hits = {} THEN -1 ELSE SetMin(hits) - 1
    IN  First({i \in 1..(Len(t) + 1) : StartsAt(t, i, q)})

ExcerptRadius == 100

Max(a, b) == IF a > b THEN a ELSE b

Min(a, b) == IF a < b THEN a ELSE b

\* the excerpt of lines 178-186
Excerpt(content, query) ==
    LET Shown(cut) ==
            <<".", ".", ".">>
            \o [i \in 1..Len(cut) |-> IF cut[i] = NL THEN " " ELSE cut[i]]
            \o <<".", ".", ".">>
        At(idx) ==
            Shown(Slice(content, Max(0, idx - ExcerptRadius) + 1,
                        Min(Len(content), idx + Len(query) + ExcerptRadius)))
    IN  At(Find(LowerText(content), LowerText(query)))

\* the files a scan of the vault reads: read_text follows a symbolic link,
\* and fails (the entry is skipped) on a directory or a dangling link
Readable == {p \in rglob_md(vault_path) : IsFile(Canon(p))}

ScanAccess ==
    {Access(d, "list") : d \in WalkDirs(vault_path)}
    \cup {Access(Canon(p), "read") : p \in Readable}

\* the results come in the order of the directory scan, which the code does
\* not fix: the value is the set of results
search_vault(query) ==
    LET hits == {p \in Readable : Find(LowerText(files[Canon(p)]), LowerText(query)) >= 0}
    IN  [Ok(vault_path) EXCEPT
            !.value = {[path |-> RelativeTo(p, vault_path),
                        excerpt |-> Excerpt(files[Canon(p)], query)] : p \in hits},
            !.accessed = ScanAccess]

\* the entries build_tree sees in the directory path names: iterdir lists
\* the directory the path leads to
Items(path) == {Append(path, Last(e)) : e \in Entries(Canon(path))}

Shown(path) == SelectSeq(Sorted(Items(path)), LAMBDA item : Last(item) \notin DotNames)

\* the symbolic links one path lookup may follow before the kernel gives up
\* with ELOOP (MAXSYMLINKS, 40 on Linux), scaled to the vaults of the model
MaxSymlinks == 3

\* the symbolic links followed when the path comps is resolved from cur
RECURSIVE Follows(_, _)
Follows(cur, comps) ==
    IF comps = <<>> THEN 0
    ELSE IF Head(comps) \in {"", "."} THEN Follows(cur, Tail(comps))
    ELSE IF Head(comps) = ".." THEN Follows(Parent(cur), Tail(comps))
    ELSE IF Append(cur, Head(comps)) \in DOMAIN links
         THEN 1 + Follows(<<>>, links[Append(cur, Head(comps))] \o Tail(comps))
    ELSE Follows(Append(cur, Head(comps)), Tail(comps))

\* Path.is_dir() without the limit of the kernel on the links of a lookup
is_dir_unlimited(p) == IsDir(Canon(p))

\* Path.is_dir(): stat follows symbolic links; when the lookup fails with
\* ELOOP the answer is False
is_dir(p) == Follows(<<>>, p) <= MaxSymlinks /\ IsDir(Canon(p))

\* build_tree of get_vault_structure: is_dir follows symbolic links
RECURSIVE build_tree(_)
build_tree(path) ==
    LET Node(items) ==
            [name |-> Last(path), type |-> "directory",
             children |-> [i \in 1..Len(items) |->
                              IF is_dir(items[i]) THEN build_tree(items[i])
                              ELSE [name |-> Last(items[i]), type |-> "note",
                                    path |-> RelativeTo(items[i], vault_path)]]]
    IN  Node(SelectSeq(Shown(path),
                       LAMBDA item : is_dir(item) \/ Last(item) \in MdNames))

\* the directories build_tree lists, by canonical location
RECURSIVE TreeDirs(_)
TreeDirs(path) ==
    {Canon(path)}
    \cup UNION {TreeDirs(item) : item \in {i \in Items(path) :
                                    Last(i) \notin DotNames /\ is_dir(i)}}

get_vault_structure ==
    [Ok(vault_path) EXCEPT !.value = build_tree(vault_path),
                           !.accessed = {Access(d, "list") : d \in TreeDirs(vault_path)}]

\* ------------------------------------------------------------------------
\* The server: the constructor, then any sequence of calls
\* ------------------------------------------------------------------------
MaxWrites == 1

VaultArgs == {VaultDir, <<"missing">>, <<"o", "n.md">>}

CallPaths == {<<"n.md">>, <<"d", "n.md">>, <<"", "..", "o", "n.md">>, <<"l.md">>,
              <<"ld", "n.md">>, <<"d">>, <<"n.md", "n.md">>, <<>>}

\* a body that starts with a blank line, and one that reads as a header block
BlankFirst == <<NL, "x">>

HeaderBody == Dashes \o <<NL, "b", ":", " ", "y", NL>> \o Dashes \o <<NL, "x">>

CallBodies == {PlainText, BlankFirst, HeaderBody}

\* the bodies of new notes
NewBodies == {PlainText, HeaderBody}

CallMetas == {<<>>, <<Pair(KeyA, Scalar(<<"y">>))>>}

Queries == {<<"x">>, <<"Y">>}

Init ==
    /\ InitFs
    /\ vault_path = <<>>
    /\ pc = "new"
    /\ last = NoCall
    /\ writes = 0
    /\ arg = <<>>
    /\ out = NoOut

\* VaultManager.__init__
Construct ==
    /\ pc = "new"
    /\ \E a \in VaultArgs : \E vp \in {Canon(a)} :
         LET failed(cause, msg) ==
                 [NoCall EXCEPT !.op = "init", !.path = a, !.status = "ValueError",
                                !.cause = cause, !.msg = msg]
         IN  IF ~Exists(vp)
             THEN /\ pc' = "failed"
                  /\ last' = failed("vault missing", "Vault path does not exist")
                  /\ UNCHANGED vault_path
             ELSE IF ~IsDir(vp)
             THEN /\ pc' = "failed"
                  /\ last' = failed("vault not a directory", "Vault path is not a directory")
                  /\ UNCHANGED vault_path
             ELSE /\ pc' = "ready"
                  /\ vault_path' = vp
                  /\ last' = [NoCall EXCEPT !.op = "init", !.path = a]
    /\ UNCHANGED <<dirs, files, links, writes, arg, out>>

\* a call of operation op on filepath with outcome r
Call(op, filepath, r) ==
    /\ pc = "ready"
    /\ r.wrote => writes < MaxWrites
    /\ last' = [op |-> op, path |-> filepath, status |-> r.status, cause |-> r.cause,
                msg |-> r.msg, target |-> r.target, value |-> r.value,
                accessed |-> r.accessed]
    /\ files' = r.files
    /\ dirs' = r.dirs
    /\ writes' = IF r.wrote THEN writes + 1 ELSE writes
    /\ UNCHANGED <<vault_path, pc, links, arg, out>>

ReadNote == \E f \in CallPaths : LET r == read_note(f) IN Call("read_note", f, r)

CreateNote ==
    \E f \in CallPaths, b \in NewBodies, m \in CallMetas :
        LET r == create_note(f, b, m) IN Call("create_note", f, r)

EditNote ==
    \E f \in CallPaths, b \in CallBodies :
        LET r == edit_note(f, b) IN Call("edit_note", f, r)

ListNotes == \E f \in CallPaths : LET r == list_notes(f) IN Call("list_notes", f, r)

SearchVault ==
    \E q \in Queries : LET r == search_vault(q) IN Call("search_vault", <<>>, r)

GetVaultStructure == LET r == get_vault_structure IN Call("get_vault_structure", <<>>, r)

ReadFrontmatter ==
    \E f \in CallPaths : LET r == read_frontmatter(f) IN Call("read_frontmatter", f, r)

UpdateFrontmatter ==
    \E f \in CallPaths, m \in CallMetas :
        LET r == update_frontmatter(f, m) IN Call("update_frontmatter", f, r)

Next ==
    \/ Construct
    \/ ReadNote
    \/ CreateNote
    \/ EditNote
    \/ ListNotes
    \/ SearchVault
    \/ GetVaultStructure
    \/ ReadFrontmatter
    \/ UpdateFrontmatter

Spec == Init /\ [][Next]_vars

\* ------------------------------------------------------------------------
\* Claims about the server
\* ------------------------------------------------------------------------
PathOps == {"read_note", "create_note", "edit_note", "list_notes", "read_frontmatter",
            "update_frontmatter"}

\* the canonical location a call's path string leads to
TargetOf(call) == Canon(vault_path \o lstrip(call.path))

Escapes(call) == ~IsUnder(TargetOf(call), vault_path)

\* C2: a path-taking call whose path leads outside the root fails with the
\* path-traversal error, having read, written and created nothing: the
\* files and directories are as before the call.
C2_TraversalFirst ==
    [][(pc = "ready" /\ last'.op \in PathOps /\ Escapes(last')) =>
          /\ last'.status = "ValueError"
          /\ last'.cause = "path traversal"
          /\ last'.accessed = {}
          /\ files' = files
          /\ dirs' = dirs]_vars

\* create_note was refused for a path through a symbolic link to a directory
\* outside the vault
C2_Witness ==
    /\ last.op = "create_note"
    /\ last.path = <<"ld", "n.md">>
    /\ links # <<>>
    /\ last.cause = "path traversal"

\* C3: no call reads, lists or writes a location outside the vault root,
\* also in a vault with symbolic links that lead outside.
C3_NoAccessOutside ==
    pc = "ready" => \A a \in last.accessed : IsUnder(a.loc, vault_path)

\* the metadata read_frontmatter reports for a text
MetaOf(text) ==
    LET r == parse(text)
    IN  [status |-> r.status, kind |-> r.fmkind, str |-> r.fmstr,
         keys |-> Keys(r.frontmatter),
         vals |-> [key \in Keys(r.frontmatter) |-> Lookup(r.frontmatter, key)]]

\* C4: a successful edit_note leaves the metadata of the note as it was.
C4_EditKeepsMeta ==
    [][(last'.op = "edit_note" /\ last'.status = "ok") =>
          MetaOf(files'[last'.target]) = MetaOf(files[last'.target])]_vars

\* C6: create_note on a path where a file exists fails with the
\* already-exists error and leaves every file as it was.
C6_CreateExisting ==
    [][(pc = "ready" /\ last'.op = "create_note" /\ ~Escapes(last')
          /\ IsFile(TargetOf(last'))) =>
          /\ last'.status = "FileExistsError"
          /\ files' = files
          /\ dirs' = dirs]_vars

\* a second create_note on the path of a note that create_note made
C6_Witness ==
    /\ last.op = "create_note"
    /\ last.status = "FileExistsError"
    /\ last.target = <<"v", "d", "n.md">>
    /\ writes = 1

ReadOps == {"read_note", "edit_note", "read_frontmatter", "update_frontmatter"}

\* C9: read_note, edit_note, read_frontmatter and update_frontmatter on a
\* path inside the vault where nothing exists fail with the not-found error
\* and leave every file and directory as it was.
C9_NotFound ==
    [][(pc = "ready" /\ last'.op \in ReadOps /\ ~Escapes(last')
          /\ ~Exists(TargetOf(last'))) =>
          /\ last'.status = "FileNotFoundError"
          /\ files' = files
          /\ dirs' = dirs]_vars

\* edit_note was refused for a path with no note
C9_Witness ==
    /\ last.op = "edit_note"
    /\ last.status = "FileNotFoundError"
    /\ last.path = <<"d", "n.md">>
    /\ ~IsFile(<<"v", "d", "n.md">>)

FatalCauses == {"vault missing", "vault not a directory", "path traversal",
                "note not found", "note exists", "malformed header"}

\* C10 as claimed: failures of two different conditions never have the same
\* kind.
C10_KindsDiffer ==
    [][(last.cause \in FatalCauses /\ last'.cause \in FatalCauses
          /\ last.cause # last'.cause) => last.status # last'.status]_vars

\* the conditions raised as ValueError, each with its message
ValueErrors ==
    ("vault missing" :> "Vault path does not exist")
    @@ ("vault not a directory" :> "Vault path is not a directory")
    @@ ("path traversal" :> "Path traversal detected")
    @@ ("malformed header" :> "Invalid YAML frontmatter")

\* C10 as the code has it: not found, already exists and ValueError are three
\* different kinds; a missing root, a root that is no directory, a path
\* outside the root and a malformed header are all ValueError and differ by
\* their message only.
C10_Kinds ==
    /\ last.cause = "note not found" => last.status = "FileNotFoundError"
    /\ last.cause = "note exists" => last.status = "FileExistsError"
    /\ last.cause \in DOMAIN ValueErrors =>
          last.status = "ValueError" /\ last.msg = ValueErrors[last.cause]
    /\ last.status = "ValueError" => last.cause \in DOMAIN ValueErrors
    /\ last.status = "FileNotFoundError" => last.cause = "note not found"

\* a malformed header was reported
C10_Witness ==
    /\ last.op = "read_frontmatter"
    /\ last.cause = "malformed header"
    /\ last.status = "ValueError"

\* ------------------------------------------------------------------------
\* Malformed headers, creation and editing
\* ------------------------------------------------------------------------
HeaderOps == {"read_frontmatter", "edit_note", "update_frontmatter"}

\* the text starts with a header block whose content yaml.safe_load rejects
InvalidHeader(text) ==
    \E m \in {FRONTMATTER_PATTERN(text)} :
        m.matched /\ YamlLoad(m.group).kind = "error"

\* C11: parse of a text whose header block is structurally invalid fails with
\* the ValueError of the metadata format, and read_frontmatter, edit_note and
\* update_frontmatter on such a note fail with it and leave every file as it
\* was.
C11_MalformedPropagates ==
    [][(pc = "ready" /\ last'.op \in HeaderOps /\ ~Escapes(last')) =>
          \A t \in {TargetOf(last')} :
              (IsFile(t) /\ InvalidHeader(files[t])) =>
                  /\ parse(files[t]).status = "ValueError"
                  /\ last'.status = "ValueError"
                  /\ last'.cause = "malformed header"
                  /\ files' = files
                  /\ dirs' = dirs]_vars

\* update_frontmatter was refused on the note with the malformed header
C11_Witness ==
    /\ last.op = "update_frontmatter"
    /\ last.status = "ValueError"
    /\ last.cause = "malformed header"
    /\ files[last.target] = BadHeaderText

\* the step is a successful create_note(f, b, m)
CreateStep(f, b, m) ==
    /\ Call("create_note", f, create_note(f, b, m))
    /\ last'.status = "ok"

\* C12: after a successful create_note(path, body, metadata) every parent
\* directory of the note exists, read_note(path) returns dump(metadata, body)
\* when metadata is given and body when it is not, and read_frontmatter(path)
\* returns the given metadata.
C12_CreateWrites ==
    [][\A f \in CallPaths, b \in NewBodies, m \in CallMetas :
          (last'.op = "create_note" /\ last'.path = f /\ CreateStep(f, b, m)) =>
              /\ Prefixes(Parent(last'.target)) \subseteq dirs'
              /\ read_note(f)'.status = "ok"
              /\ \A text \in {read_note(f)'.value} :
                    /\ text = IF m # <<>> THEN dump(m, b) ELSE b
                    /\ m # <<>> =>
                          /\ MetaOf(text).status = "ok"
                          /\ MetaOf(text).kind = "map"
                          /\ DictEq(parse(text).frontmatter, m)]_vars

\* create_note made a note with metadata in a directory
C12_Witness ==
    /\ last.op = "create_note"
    /\ last.status = "ok"
    /\ last.target = <<"v", "d", "n.md">>
    /\ parse(files[last.target]).has_frontmatter
    /\ writes = 1

\* the step is a successful edit_note(f, b)
EditStep(f, b) ==
    /\ Call("edit_note", f, edit_note(f, b))
    /\ last'.status = "ok"

\* C13: after a successful edit_note(path, newBody) the body of the note is
\* newBody, for every newBody: the content parse yields from the new text
\* when the note had a header block, the new text itself when it had none.
C13_EditSetsBody ==
    [][\A f \in CallPaths, b \in CallBodies :
          (last'.op = "edit_note" /\ last'.path = f /\ EditStep(f, b)) =>
              \A old \in {files[last'.target]}, text \in {files'[last'.target]} :
                  IF parse(old).has_frontmatter THEN parse(text).content = b
                  ELSE text = b]_vars

\* ------------------------------------------------------------------------
\* Header recognition
\* ------------------------------------------------------------------------

\* C14: a text that starts with an opening line directly followed by a
\* closing line and a newline is parsed as having a header, with empty
\* metadata and the text after the closing line as content.
C14_EmptyHeader ==
    (out.op = "parse" /\ StartsAt(arg.text, 1, EmptyHeader)) =>
        /\ out.status = "ok"
        /\ parse(arg.text).has_frontmatter
        /\ parse(arg.text).frontmatter = <<>>
        /\ parse(arg.text).content = Slice(arg.text, Len(EmptyHeader) + 1, Len(arg.text))

\* a line that is "---" and trailing blanks
DashLine(l) == StartsAt(l, 1, Dashes) /\ \A i \in 4..Len(l) : IsSpace(l[i])

\* the text begins with a complete header block: its first line is a "---"
\* line and a later line that a newline ends is one too
CompleteHeader(text) ==
    LET lines == SplitLines(text)
    IN  /\ DashLine(lines[1])
        /\ \E k \in 2..(Len(lines) - 1) : DashLine(lines[k])

\* C15: a text that does not begin with a complete header block is parsed
\* as having no header: empty metadata and the whole text as content; so a
\* closing "---" that other text follows on its line ends no header.
C15_NoHeader ==
    (out.op = "parse" /\ ~CompleteHeader(arg.text)) =>
        /\ out.status = "ok"
        /\ ~parse(arg.text).has_frontmatter
        /\ parse(arg.text).frontmatter = <<>>
        /\ parse(arg.text).content = arg.text

\* parse of "---", a mapping line and "---x"
C15_Witness ==
    /\ out.op = "parse"
    /\ out.status = "ok"
    /\ arg.text = Dashes \o <<NL, "a", ":", " ", "x", NL>> \o Dashes \o <<"x">>

\* ------------------------------------------------------------------------
\* Tags and links: the scans of list_tags, find_by_tag and get_backlinks
\* ------------------------------------------------------------------------

\* \b at the gap before position k: exactly one side is a word character
WordBoundary(t, k) ==
    (k - 1 >= 1 /\ k - 1 <= Len(t) /\ t[k - 1] \in WordChars)
        # (k >= 1 /\ k <= Len(t) /\ t[k] \in WordChars)

\* the length of the run of word characters that starts at position i
RECURSIVE WordRun(_, _)
WordRun(t, i) == IF i <= Len(t) /\ t[i] \in WordChars THEN 1 + WordRun(t, i + 1) ELSE 0

\* re.compile(r"#(\w+)").findall(content) from position i on: the tags, in
\* order
RECURSIVE tag_findall(_, _)
tag_findall(content, i) ==
    LET Tagged(n) ==
            IF n = 0 THEN tag_findall(content, i + 1)
            ELSE <<Slice(content, i + 1, i + n)>> \o tag_findall(content, i + n + 1)
    IN  IF i > Len(content) THEN <<>>
        ELSE IF content[i] # "#" THEN tag_findall(content, i + 1)
        ELSE Tagged(WordRun(content, i + 1))

\* str.lstrip("#")
RECURSIVE lstrip_hash(_)
lstrip_hash(tag) == IF tag # <<>> /\ Head(tag) = "#" THEN lstrip_hash(Tail(tag)) ELSE tag

\* the pattern without its final \b
tag_search_prefix(content, clean_tag) ==
    \E i \in 1..Len(content) :
        /\ content[i] = "#"
        /\ WordBoundary(content, i + 1)
        /\ StartsAt(content, i + 1, clean_tag)

\* re.compile(rf"#\b{re.escape(clean_tag)}\b").search(content)
tag_search(content, clean_tag) ==
    \E i \in 1..Len(content) :
        /\ content[i] = "#"
        /\ WordBoundary(content, i + 1)
        /\ StartsAt(content, i + 1, clean_tag)
        /\ WordBoundary(content, i + 1 + Len(clean_tag))

\* the pattern built from the name without re.escape: "." is any character
\* but a newline
link_match_unescaped(content, name, i) ==
    LET Like(k) ==
            /\ k + Len(name) - 1 <= Len(content)
            /\ \A j \in 1..Len(name) :
                  \/ content[k + j - 1] = name[j]
                  \/ name[j] = "." /\ content[k + j - 1] # NL
        Closed(k) == IF StartsAt(content, k, <<"]", "]">>) THEN k + 1 ELSE 0
        Alias(k) ==
            IF \A j \in k..Len(content) : content[j] # "]" THEN 0
            ELSE Closed(SetMin({j \in k..Len(content) : content[j] = "]"}))
        After(k) ==
            IF StartsAt(content, k, <<"]", "]">>) THEN k + 1
            ELSE IF k + 1 <= Len(content) /\ content[k] = "|" /\ content[k + 1] # "]"
                 THEN Alias(k + 1)
            ELSE 0
    IN  IF StartsAt(content, i, <<"[", "[">>) /\ Like(i + 2) THEN After(i + 2 + Len(name))
        ELSE 0

\* the end of the match of \[\[name(\|[^\]]+)?\]\] at position i, or 0: the
\* alias runs to the first "]"
link_match(content, name, i) ==
    LET Closed(k) == IF StartsAt(content, k, <<"]", "]">>) THEN k + 1 ELSE 0
        Alias(k) ==
            IF \A j \in k..Len(content) : content[j] # "]" THEN 0
            ELSE Closed(SetMin({j \in k..Len(content) : content[j] = "]"}))
        After(k) ==
            IF StartsAt(content, k, <<"]", "]">>) THEN k + 1
            ELSE IF k + 1 <= Len(content) /\ content[k] = "|" /\ content[k + 1] # "]"
                 THEN Alias(k + 1)
            ELSE 0
    IN  IF StartsAt(content, i, <<"[", "[">> \o name) THEN After(i + 2 + Len(name)) ELSE 0

\* len(link_pattern.findall(content)) from position i on: the matches are
\* taken left to right and do not overlap
RECURSIVE link_findall(_, _, _)
link_findall(content, name, i) ==
    LET Matched(end) ==
            IF end = 0 THEN link_findall(content, name, i + 1)
            ELSE 1 + link_findall(content, name, end + 1)
    IN  IF i > Len(content) THEN 0 ELSE Matched(link_match(content, name, i))

\* md_file.stem of the note names
Stems == ("n.md" :> "n") @@ ("l.md" :> "l")

\* the orders in which a scan may meet the notes it reads: rglob yields the
\* entries of a directory in the order the filesystem lists them
ScanOrders ==
    {o \in [1..Cardinality(Readable) -> Readable] :
        \A i, j \in 1..Cardinality(Readable) : i # j => o[i] # o[j]}

\* lines 320-325: one occurrence of tag in the note rel_path
AddTag(tag_data, tag, rel_path) ==
    IF \E i \in 1..Len(tag_data) : tag_data[i].tag = tag
    THEN [i \in 1..Len(tag_data) |->
             IF tag_data[i].tag # tag THEN tag_data[i]
             ELSE [tag |-> tag, count |-> tag_data[i].count + 1,
                   examples |-> IF Len(tag_data[i].examples) < 3
                                THEN Append(tag_data[i].examples, rel_path)
                                ELSE tag_data[i].examples]]
    ELSE Append(tag_data, [tag |-> tag, count |-> 1, examples |-> <<rel_path>>])

\* the loop over the tags of one note
RECURSIVE AddTags(_, _, _)
AddTags(tag_data, tags, rel_path) ==
    IF tags = <<>> THEN tag_data
    ELSE AddTags(AddTag(tag_data, Head(tags), rel_path), Tail(tags), rel_path)

\* the loop over the notes, from the i-th of the scan order on
RECURSIVE ScanTags(_, _, _)
ScanTags(tag_data, order, i) ==
    IF i > Len(order) THEN tag_data
    ELSE ScanTags(AddTags(tag_data, tag_findall(files[Canon(order[i])], 1),
                          RelativeTo(order[i], vault_path)),
                  order, i + 1)

\* sorted(tag_data.items(), key = -count): the sort is stable
RECURSIVE ByCount(_)
ByCount(tag_data) ==
    LET Pick(i) ==
            <<tag_data[i]>>
            \o ByCount([j \in 1..(Len(tag_data) - 1) |->
                            IF j < i THEN tag_data[j] ELSE tag_data[j + 1]])
    IN  IF tag_data = <<>> THEN <<>>
        ELSE Pick(SetMin({i \in 1..Len(tag_data) :
                            \A j \in 1..Len(tag_data) :
                                tag_data[j].count <= tag_data[i].count}))

list_tags(order) == ByCount(ScanTags(<<>>, order, 1))

\* the entry of a note in the results of find_by_tag and get_backlinks
NoteEntry(p) == [path |-> RelativeTo(p, vault_path), name |-> Stems[Last(p)]]

find_by_tag(tag, order) ==
    LET Entries_(hits) == [i \in 1..Len(hits) |-> NoteEntry(hits[i])]
    IN  Entries_(SelectSeq(order, LAMBDA p :
                               tag_search(files[Canon(p)], lstrip_hash(tag))))

get_backlinks(note_name, order) ==
    LET Entries_(hits) ==
            [i \in 1..Len(hits) |->
                [path |-> RelativeTo(hits[i], vault_path), name |-> Stems[Last(hits[i])],
                 link_count |-> link_findall(files[Canon(hits[i])], note_name, 1)]]
    IN  Entries_(SelectSeq(order, LAMBDA p :
                               link_findall(files[Canon(p)], note_name, 1) > 0))

\* ------------------------------------------------------------------------
\* The scans applied to bounded vaults
\* ------------------------------------------------------------------------
MaxFrags == 2

\* a header block that declares the tag x
TagsHeader ==
    Dashes \o <<NL, "t", "a", "g", "s", ":", NL, " ", " ", "-", " ", "x", NL>>
    \o Dashes \o <<NL>>

TagFrags == {<<"#", "x">>, <<"#", "x", "y">>, <<"#", "y">>, <<"#">>, <<" ">>, <<"-">>,
             <<"x">>, TagsHeader}

LinkFrags == {<<"[", "[", "a", "]", "]">>, <<"[", "[", "a", "|", "b", "]", "]">>,
              <<"[", "[", "a", "a", "]", "]">>, <<"[", "[", ".", "]", "]">>,
              <<"[", "[", "a", "|">>, <<"]", "]">>, <<"a">>}

\* the texts made of at most n fragments
RECURSIVE Cat(_, _)
Cat(F, n) ==
    IF n = 0 THEN {<<>>}
    ELSE Cat(F, n - 1) \cup {a \o f : a \in Cat(F, n - 1), f \in F}

ScanTexts == Cat(TagFrags, MaxFrags) \cup Cat(LinkFrags, MaxFrags)

\* the texts of the second note
OtherTexts == {<<>>, <<"#", "x", " ", "#", "x">>, TagsHeader,
               <<"[", "[", "a", "]", "]", "[", "[", "a", "]", "]">>}

TagQueries == {<<"x">>, <<"#", "x">>, <<"#", "#", "x">>, <<"y">>}

LinkNames == {<<"a">>, <<".">>}

NoArg == [fn |-> "none"]

InitScan ==
    /\ dirs = {<<>>, VaultDir, <<"v", "d">>}
    /\ \E t \in ScanTexts, u \in OtherTexts :
          files = (<<"v", "n.md">> :> t) @@ (<<"v", "d", "n.md">> :> u)
    /\ links = <<>>
    /\ vault_path = VaultDir
    /\ pc = "scan"
    /\ last = NoCall
    /\ writes = 0
    /\ arg = NoArg
    /\ out = NoOut

ListTags ==
    /\ arg = NoArg
    /\ \E order \in ScanOrders :
          /\ arg' = [fn |-> "list_tags", order |-> order]
          /\ out' = [op |-> "list_tags", status |-> "ok", value |-> list_tags(order)]
    /\ UNCHANGED fsvars

FindByTag ==
    /\ arg = NoArg
    /\ \E tag \in TagQueries, order \in ScanOrders :
          /\ arg' = [fn |-> "find_by_tag", tag |-> tag, order |-> order]
          /\ out' = [op |-> "find_by_tag", status |-> "ok",
                     value |-> find_by_tag(tag, order)]
    /\ UNCHANGED fsvars

GetBacklinks ==
    /\ arg = NoArg
    /\ \E note_name \in LinkNames, order \in ScanOrders :
          /\ arg' = [fn |-> "get_backlinks", note_name |-> note_name, order |-> order]
          /\ out' = [op |-> "get_backlinks", status |-> "ok",
                     value |-> get_backlinks(note_name, order)]
    /\ UNCHANGED fsvars

NextScan == ListTags \/ FindByTag \/ GetBacklinks

SpecScan == InitScan /\ [][NextScan]_vars

\* ------------------------------------------------------------------------
\* Claims about tags and links
\* ------------------------------------------------------------------------

\* the text of the note the scan finds at p
TextOf(p) == files[Canon(p)]

\* "#" and tag at position i of text, with no word character after the tag
WholeTagAt(text, tag, i) ==
    /\ text[i] = "#"
    /\ StartsAt(text, i + 1, tag)
    /\ (i + Len(tag) = Len(text) \/ text[i + Len(tag) + 1] \notin WordChars)

HasWholeTag(text, tag) == \E i \in 1..Len(text) : WholeTagAt(text, tag, i)

Occurrences(text, tag) ==
    Cardinality({i \in 1..Len(text) :
                    /\ WholeTagAt(text, tag, i)
                    /\ tag # <<>>
                    /\ \A j \in 1..Len(tag) : tag[j] \in WordChars})

\* the occurrences of the tag in the notes of S, added up
RECURSIVE TotalIn(_, _)
TotalIn(S, tag) ==
    IF S = {} THEN 0
    ELSE LET p == CHOOSE q \in S : TRUE
         IN  Occurrences(TextOf(p), tag) + TotalIn(S \ {p}, tag)

\* the tags that occur in some note of the vault
VaultTags ==
    UNION {{Slice(TextOf(p), i + 1, i + WordRun(TextOf(p), i + 1)) :
               i \in {j \in 1..Len(TextOf(p)) :
                         TextOf(p)[j] = "#" /\ WordRun(TextOf(p), j + 1) > 0}} :
           p \in Readable}

\* the place of a path in the scan order
PlaceOf(order, rel_path) ==
    CHOOSE i \in 1..Len(order) : RelativeTo(order[i], vault_path) = rel_path

\* C17: list_tags reports every tag once, with the total number of its
\* occurrences in the vault and at most 3 examples: pairwise distinct paths
\* of notes that contain the tag, in scan order.
C17_TagEntries ==
    out.op = "list_tags" =>
        /\ {out.value[i].tag : i \in 1..Len(out.value)} = VaultTags
        /\ \A i \in 1..Len(out.value) :
              LET e == out.value[i]
              IN  /\ e.count = TotalIn(Readable, e.tag)
                  /\ Len(e.examples) <= 3
                  /\ \A a, b \in 1..Len(e.examples) :
                        a < b => /\ e.examples[a] # e.examples[b]
                                 /\ PlaceOf(arg.order, e.examples[a])
                                       < PlaceOf(arg.order, e.examples[b])
                  /\ \A a \in 1..Len(e.examples) :
                        \E p \in Readable :
                            /\ RelativeTo(p, vault_path) = e.examples[a]
                            /\ Occurrences(TextOf(p), e.tag) > 0

\* C18: the count list_tags reports for a tag is the number of notes that
\* contain the tag.
C18_CountsNotes ==
    out.op = "list_tags" =>
        \A i \in 1..Len(out.value) :
            out.value[i].count
                = Cardinality({p \in Readable : Occurrences(TextOf(p), out.value[i].tag) > 0})

\* the tags a text declares in the tags list of its header block: the
\* "  - tag" lines after the "tags:" line
Declared(text) ==
    LET m     == FRONTMATTER_PATTERN(text)
        lines == SplitLines(m.group)
        item  == <<" ", " ", "-", " ">>
    IN  IF ~m.matched THEN {}
        ELSE {Slice(lines[k], 5, Len(lines[k])) :
                 k \in {j \in 2..Len(lines) :
                           /\ \E h \in 1..(j - 1) : lines[h] = <<"t", "a", "g", "s", ":">>
                           /\ StartsAt(lines[j], 1, item)
                           /\ IsWord(Slice(lines[j], 5, Len(lines[j])))}}

\* C19: a tag that a note declares in the tags list of its header is a tag
\* of the note: list_tags reports it and find_by_tag returns the note.
C19_HeaderTags ==
    /\ out.op = "list_tags" =>
          \A p \in Readable : \A t \in Declared(TextOf(p)) :
              \E i \in 1..Len(out.value) : out.value[i].tag = t
    /\ out.op = "find_by_tag" =>
          \A p \in Readable :
              lstrip_hash(arg.tag) \in Declared(TextOf(p)) =>
                  \E i \in 1..Len(out.value) :
                      out.value[i].path = RelativeTo(p, vault_path)

\* the end of a link to name that starts at position i of text, 0 if none
\* starts there: "[[name]]", or "[[name|alias]]" with an alias of one or more
\* characters other than "]"
LinkEnd(text, name, i) ==
    LET open == <<"[", "[">> \o name
        shut == <<"]", "]">>
        a    == i + Len(open)
        ends == {e \in a..Len(text) :
                    /\ StartsAt(text, e, shut)
                    /\ \/ e = a
                       \/ /\ text[a] = "|"
                          /\ e > a + 1
                          /\ \A j \in (a + 1)..(e - 1) : text[j] # "]"}
    IN  IF StartsAt(text, i, open) /\ ends # {} THEN SetMin(ends) + 1 ELSE 0

LinkStarts(text, name) == {i \in 1..Len(text) : LinkEnd(text, name, i) > 0}

\* the links to name in text, a link inside the alias of another not counted
Links(text, name) ==
    {i \in LinkStarts(text, name) :
        \A j \in LinkStarts(text, name) : ~(j < i /\ i <= LinkEnd(text, name, j))}

\* C20: get_backlinks(name) returns one entry for each note with at least
\* one "[[name]]" or "[[name|alias]]", with the number of these links as
\* link_count, and no other entry; the name is matched literally and whole.
C20_Backlinks ==
    out.op = "get_backlinks" =>
        LET linking == SelectSeq(arg.order, LAMBDA p :
                                     LinkStarts(TextOf(p), arg.note_name) # {})
        IN  out.value =
                [i \in 1..Len(linking) |->
                    [path |-> RelativeTo(linking[i], vault_path),
                     name |-> Stems[Last(linking[i])],
                     link_count |-> Cardinality(Links(TextOf(linking[i]), arg.note_name))]]

\* both notes link to a, one of them by an alias and next to a link to aa
C20_Witness ==
    /\ out.op = "get_backlinks"
    /\ arg.note_name = <<"a">>
    /\ files[<<"v", "n.md">>]
          = <<"[", "[", "a", "|", "b", "]", "]", "[", "[", "a", "a", "]", "]">>
    /\ Len(out.value) = 2
    /\ \E i \in 1..2 : out.value[i].link_count = 2

\* ------------------------------------------------------------------------
\* search_vault applied to notes longer than the excerpt
\* ------------------------------------------------------------------------
Pad(c, n) == [i \in 1..n |-> c]

\* the lengths of the text before and after the match
PadLens == {0, 1, ExcerptRadius - 1, ExcerptRadius, ExcerptRadius + 1}

\* a matching "X" between a run of "p" or of U+0130 and a run of "q", of
\* newlines or of further matches; and a text without a match
SearchTexts ==
    {Pad(c, a) \o <<"X">> \o Pad(d, b) :
        c \in {"p", DottedI}, d \in {"q", NL, "x"}, a \in PadLens, b \in PadLens}
    \cup {<<"p", "q">>}

SearchQueries == {<<"x">>, <<"X", "q">>, <<DottedI>>, <<>>}

InitSearch ==
    /\ dirs = InitDirs
    /\ \E t \in SearchTexts, u \in {PlainText, SecretText} :
          files = (<<"v", "n.md">> :> t) @@ (<<"v", "d", "n.md">> :> u)
                  @@ (<<"o", "n.md">> :> SecretText)
    /\ links \in LinkLayouts
    /\ vault_path = VaultDir
    /\ pc = "search"
    /\ last = NoCall
    /\ writes = 0
    /\ arg = NoArg
    /\ out = NoOut

\* search_vault(query)
DoSearch ==
    /\ arg = NoArg
    /\ \E query \in SearchQueries :
          /\ arg' = [fn |-> "search_vault", query |-> query]
          /\ out' = [op |-> "search_vault", status |-> "ok",
                     value |-> search_vault(query).value]
    /\ UNCHANGED fsvars

NextSearch == DoSearch

SpecSearch == InitSearch /\ [][NextSearch]_vars

\* ------------------------------------------------------------------------
\* Claims about search
\* ------------------------------------------------------------------------

\* the notes under the root, a link to a file among them
NotesUnderRoot ==
    {p \in DOMAIN files \cup DOMAIN links :
        IsUnder(p, vault_path) /\ Last(p) \in MdNames /\ IsFile(Canon(p))}

\* query occurs in text at position i (from 1), the characters compared
\* ignoring case
OccursAt(text, query, i) ==
    /\ i + Len(query) - 1 <= Len(text)
    /\ \A k \in 1..Len(query) : Lower(text[i + k - 1]) = Lower(query[k])

OccurrencesOf(text, query) == {i \in 1..(Len(text) + 1) : OccursAt(text, query, i)}

\* the text from ExcerptRadius characters before the occurrence at i to
\* ExcerptRadius characters after its end, newlines as spaces, in "..."
Window(text, query, i) ==
    LET cut == Slice(text, Max(1, i - ExcerptRadius),
                     Min(Len(text), i - 1 + Len(query) + ExcerptRadius))
    IN  <<".", ".", ".">>
        \o [k \in 1..Len(cut) |-> IF cut[k] = NL THEN " " ELSE cut[k]]
        \o <<".", ".", ".">>

\* the excerpt shows the occurrence of query that text has at i
ShowsOccurrence(excerpt, text, query, i) ==
    \E j \in 1..(Len(excerpt) + 1) :
        StartsAt(excerpt, j,
                 [k \in 1..Len(query) |->
                     IF text[i + k - 1] = NL THEN " " ELSE text[i + k - 1]])

\* C21: search_vault(query) returns one result for every ".md" file under
\* the root whose text contains query ignoring case and none for another
\* file; the excerpt of a result is the text from 100 characters before the
\* first occurrence to 100 characters after its end, newlines as spaces,
\* between "..." and "...", and contains that occurrence.
C21_Search ==
    out.op = "search_vault" =>
        LET query == arg.query
            matching == {p \in NotesUnderRoot :
                            OccurrencesOf(files[Canon(p)], query) # {}}
        IN  /\ {r.path : r \in out.value} = {RelativeTo(p, vault_path) : p \in matching}
            /\ Cardinality(out.value) = Cardinality(matching)
            /\ \A p \in matching : \A r \in out.value :
                  r.path = RelativeTo(p, vault_path) =>
                      LET text == files[Canon(p)]
                          first == SetMin(OccurrencesOf(text, query))
                      IN  /\ r.excerpt = Window(text, query, first)
                          /\ ShowsOccurrence(r.excerpt, text, query, first)

\* the same for the notes without U+0130: the excerpt is the window around
\* the first occurrence
C21_SearchPlain ==
    out.op = "search_vault" =>
        \A p \in NotesUnderRoot : \A r \in out.value :
            (/\ r.path = RelativeTo(p, vault_path)
             /\ \A k \in 1..Len(files[Canon(p)]) : files[Canon(p)][k] # DottedI
             /\ \A k \in 1..Len(arg.query) : arg.query[k] # DottedI) =>
                r.excerpt = Window(files[Canon(p)], arg.query,
                                   SetMin(OccurrencesOf(files[Canon(p)], arg.query)))

\* ------------------------------------------------------------------------
\* Listing: vaults with nested notes, a directory and a dangling link named
\* like a note, and notes created under new directories
\* ------------------------------------------------------------------------

\* a directory whose name has the suffix of a note
NoteNamedDir == <<"v", "d", "l.md">>

\* a symbolic link named like a note whose target does not exist
DanglingLink == NoteNamedDir :> <<"o", "ld">>

ListLayouts ==
    {[d |-> InitDirs, l |-> k] : k \in LinkLayouts \cup {DanglingLink}}
    \cup {[d |-> InitDirs \cup {NoteNamedDir}, l |-> k] : k \in LinkLayouts}

NestedNote == <<"v", "d", "d", "n.md">>

ListFiles ==
    {(<<"v", "n.md">> :> PlainText) @@ (<<"o", "n.md">> :> SecretText),
     (<<"v", "n.md">> :> PlainText) @@ (<<"v", "d", "n.md">> :> PlainText)
        @@ (<<"o", "n.md">> :> SecretText)}

\* the paths of the notes created: under an existing and under a new
\* directory, under a directory named like a note, a name without the
\* suffix, an existing note, and a path through a link
NewNotePaths ==
    {<<"d", "n.md">>, <<"d", "d", "n.md">>, <<"d", "l.md", "n.md">>, <<"d", "o">>,
     <<"n.md">>, <<"ld", "n.md">>}

\* the directories listed: the root (also as "."), existing and missing
\* directories, a note, a link and a path that leaves the vault
ListedDirs ==
    {<<>>, <<".">>, <<"d">>, <<"d", "d">>, <<"d", "l.md">>, <<"o">>, <<"n.md">>,
     <<"ld">>, <<"", "..", "o">>}

InitList ==
    /\ \E y \in ListLayouts : dirs = y.d /\ links = y.l
    /\ files \in ListFiles
    /\ vault_path = VaultDir
    /\ pc = "ready"
    /\ last = NoCall
    /\ writes = 0
    /\ arg = NoArg
    /\ out = NoOut

\* create_note(f, "x")
CreateListed ==
    \E f \in NewNotePaths : \E r \in {create_note(f, PlainText, <<>>)} :
        Call("create_note", f, r)

\* list_notes(directory)
ListDir ==
    \E directory \in ListedDirs : \E r \in {list_notes(directory)} :
        Call("list_notes", directory, r)

NextList == CreateListed \/ ListDir

SpecList == InitList /\ [][NextList]_vars

\* ------------------------------------------------------------------------
\* Claims about listing
\* ------------------------------------------------------------------------

\* the ".md" files under the directory at d
NotesUnder(d) == {f \in DOMAIN files : f # d /\ IsUnder(f, d) /\ Last(f) \in MdNames}

\* the directories of the vault above the location t
AncestorDirs(t) == {d \in Prefixes(Parent(t)) : IsUnder(d, vault_path)}

\* list_notes of a missing directory under the root returned the empty list
ListedMissing ==
    (last.op = "list_notes" /\ ~Escapes(last) /\ ~Exists(TargetOf(last))) =>
        last.status = "ok" /\ last.value = <<>>

\* list_notes of an existing directory returned one entry for every ".md"
\* file under it and none for a file outside it, each with the
\* vault-relative path of an entry under the directory, in path order
ListedExisting ==
    (last.op = "list_notes" /\ ~Escapes(last) /\ Exists(TargetOf(last))) =>
        /\ last.status = "ok"
        /\ \A f \in NotesUnder(TargetOf(last)) :
              Cardinality({i \in 1..Len(last.value) :
                              last.value[i] = RelativeTo(f, vault_path)}) = 1
        /\ \A f \in DOMAIN files :
              ~IsUnder(f, TargetOf(last)) =>
                  \A i \in 1..Len(last.value) : vault_path \o last.value[i] # f
        /\ \A i \in 1..Len(last.value) :
              /\ vault_path \o last.value[i] # TargetOf(last)
              /\ IsUnder(vault_path \o last.value[i], TargetOf(last))
              /\ vault_path \o last.value[i] \in dirs \cup DOMAIN files \cup DOMAIN links
        /\ \A i, j \in 1..Len(last.value) :
              i < j => PathLess(last.value[i], last.value[j])

\* the note a create_note just made is in the list_notes of each directory
\* above it
CreatedIsListed ==
    (last.op = "create_note" /\ last.status = "ok" /\ Last(last.target) \in MdNames) =>
        \A d \in AncestorDirs(last.target) :
            \E r \in {list_notes(RelativeTo(d, vault_path))} :
                /\ r.status = "ok"
                /\ \E i \in 1..Len(r.value) :
                      r.value[i] = RelativeTo(last.target, vault_path)

\* C22: list_notes(dir) returns the empty list when dir does not exist under
\* the root; otherwise one entry for every ".md" file at any depth under dir
\* and none for a file outside dir, each with its vault-relative path, in
\* sorted path order; a note created by create_note is in the next
\* list_notes of each of its ancestor directories.
C22_ListNotes == ListedMissing /\ ListedExisting /\ CreatedIsListed

\* a nested note was created under a new directory, and the list of "d"
\* then held it next to the note that was there
C22_Witness ==
    /\ last.op = "list_notes" /\ last.path = <<"d">> /\ last.status = "ok"
    /\ NestedNote \in DOMAIN files
    /\ \E i, j \in 1..Len(last.value) :
          /\ last.value[i] = <<"d", "d", "n.md">>
          /\ last.value[j] = <<"d", "n.md">>

\* the empty list for a directory that does not exist
C22_WitnessMissing ==
    /\ last.op = "list_notes" /\ last.path = <<"o">> /\ last.value = <<>>
    /\ last.status = "ok"

\* a directory named like a note is listed with the notes
ListsNoteNamedDir ==
    /\ last.op = "list_notes" /\ last.status = "ok"
    /\ \E i \in 1..Len(last.value) : vault_path \o last.value[i] \in dirs

\* a note created under a name without the suffix is in no list
NeverListsSuffixless ==
    (last.op = "list_notes" /\ <<"v", "d", "o">> \in DOMAIN files) =>
        \A i \in 1..Len(last.value) : last.value[i] # <<"d", "o">>

\* ------------------------------------------------------------------------
\* Two callers at once.  Each caller is a server process of its own on the
\* same vault; a call is its sequence of file-system calls, and the calls of
\* the two interleave.  Path.write_text is open(path, "w"), which creates
\* or truncates the file, then one write of the text at the start of the
\* file, then close; Path.read_text reads what the file holds.  Here pc, arg
\* and out hold, for each caller, where its call stands, the call, and what
\* it has computed and returned; last holds the note as it was at the start.
\* ------------------------------------------------------------------------
Callers == {"a", "b"}

RaceNote == <<"v", "n.md">>

RaceBodies == {<<"x">>, <<"y", "y">>}

RaceMeta == <<Pair(KeyA, Scalar(<<"y">>))>>

RaceCalls ==
    [op : {"read_note"}, filepath : {<<"n.md">>}, content : {<<>>}, frontmatter : {<<>>}]
    \cup [op : {"edit_note"}, filepath : {<<"n.md">>}, content : RaceBodies,
          frontmatter : {<<>>}]
    \cup [op : {"update_frontmatter"}, filepath : {<<"n.md">>}, content : {<<>>},
          frontmatter : {RaceMeta}]
    \cup [op : {"create_note"}, filepath : {<<"d", "n.md">>}, content : RaceBodies,
          frontmatter : {<<>>, RaceMeta}]

NoRaceCall == [op |-> "none", filepath |-> <<>>, content |-> <<>>, frontmatter |-> <<>>]

Pending == [status |-> "running", value |-> <<>>, full_path |-> <<>>, new_text |-> <<>>]

InitRace ==
    /\ dirs = InitDirs
    /\ \E t \in {PlainText, HeaderText} :
          /\ files = (RaceNote :> t) @@ (<<"o", "n.md">> :> SecretText)
          /\ last = [NoCall EXCEPT !.op = "init", !.target = RaceNote, !.value = t]
    /\ links = <<>>
    /\ vault_path = VaultDir
    /\ pc = [c \in Callers |-> "idle"]
    /\ arg = [c \in Callers |-> NoRaceCall]
    /\ out = [c \in Callers |-> Pending]
    /\ writes = 0

\* the call is over with an exception
Raised(c, status, full_path) ==
    /\ pc' = [pc EXCEPT ![c] = "done"]
    /\ out' = [out EXCEPT ![c] = [Pending EXCEPT !.status = status, !.full_path = full_path]]

\* the text to write is computed
Computed(c, new_text) ==
    /\ pc' = [pc EXCEPT ![c] = "computed"]
    /\ out' = [out EXCEPT ![c].new_text = new_text]

\* a call begins: _resolve_path and the test of full_path.exists()
RaceStart(c) ==
    /\ pc[c] = "idle"
    /\ \E call \in RaceCalls : \E r \in {_resolve_path(call.filepath)} :
          /\ arg' = [arg EXCEPT ![c] = call]
          /\ IF ~r.ok THEN Raised(c, "ValueError", <<>>)
             ELSE IF call.op = "create_note" /\ Exists(r.path)
                  THEN Raised(c, "FileExistsError", r.path)
             ELSE IF call.op # "create_note" /\ ~Exists(r.path)
                  THEN Raised(c, "FileNotFoundError", r.path)
             ELSE /\ pc' = [pc EXCEPT ![c] = "checked"]
                  /\ out' = [out EXCEPT ![c].full_path = r.path]
    /\ UNCHANGED <<vault_path, dirs, files, links, last, writes>>

\* read_note returns what read_text finds
RaceRead(c) ==
    /\ pc[c] = "checked"
    /\ arg[c].op = "read_note"
    /\ pc' = [pc EXCEPT ![c] = "done"]
    /\ out' = [out EXCEPT ![c].status = "ok", ![c].value = files[out[c].full_path]]
    /\ UNCHANGED <<vault_path, dirs, files, links, last, writes, arg>>

\* edit_note and update_frontmatter read the note and compute the new text
RacePrepare(c) ==
    /\ pc[c] = "checked"
    /\ arg[c].op \in {"edit_note", "update_frontmatter"}
    /\ IF arg[c].op = "edit_note"
       THEN \E result \in {parse(files[out[c].full_path])} :
               IF result.status # "ok" THEN Raised(c, "ValueError", out[c].full_path)
               ELSE IF ~result.has_frontmatter THEN Computed(c, arg[c].content)
               ELSE IF result.fmkind = "str"
                    THEN Computed(c, dumpStr(result.fmstr, arg[c].content))
               ELSE Computed(c, dump(result.frontmatter, arg[c].content))
       ELSE \E u \in {update(files[out[c].full_path], arg[c].frontmatter)} :
               IF u.status # "ok" THEN Raised(c, u.status, out[c].full_path)
               ELSE Computed(c, u.text)
    /\ UNCHANGED <<vault_path, dirs, files, links, last, writes, arg>>

\* create_note makes the parent directories and computes the text
RaceMkdir(c) ==
    /\ pc[c] = "checked"
    /\ arg[c].op = "create_note"
    /\ dirs' = dirs \cup Prefixes(Parent(out[c].full_path))
    /\ Computed(c, IF arg[c].frontmatter # <<>>
                   THEN dump(arg[c].frontmatter, arg[c].content)
                   ELSE arg[c].content)
    /\ UNCHANGED <<vault_path, files, links, last, writes, arg>>

\* write_text opens the file: it exists and is empty
RaceOpen(c) ==
    /\ pc[c] = "computed"
    /\ pc' = [pc EXCEPT ![c] = "opened"]
    /\ files' = [q \in DOMAIN files \cup {out[c].full_path} |->
                    IF q = out[c].full_path THEN <<>> ELSE files[q]]
    /\ UNCHANGED <<vault_path, dirs, links, last, writes, arg, out>>

\* data written at the start of a file that holds old
Overwrite(old, data) == data \o Slice(old, Len(data) + 1, Len(old))

\* write_text writes the text and closes; the call returns
RaceWrite(c) ==
    /\ pc[c] = "opened"
    /\ pc' = [pc EXCEPT ![c] = "done"]
    /\ files' = [files EXCEPT ![out[c].full_path] = Overwrite(@, out[c].new_text)]
    /\ out' = [out EXCEPT ![c].status = "ok"]
    /\ UNCHANGED <<vault_path, dirs, links, last, writes, arg>>

NextRace ==
    \E c \in Callers :
        \/ RaceStart(c)
        \/ RaceRead(c)
        \/ RacePrepare(c)
        \/ RaceMkdir(c)
        \/ RaceOpen(c)
        \/ RaceWrite(c)

SpecRace == InitRace /\ [][NextRace]_vars

\* ------------------------------------------------------------------------
\* Claims about overlapping calls
\* ------------------------------------------------------------------------
WriteOps == {"edit_note", "update_frontmatter"}

\* the call of c has returned normally
Returned(c) == pc[c] = "done" /\ out[c].status = "ok"

\* the text the write of w puts, once w has computed it
Puts(w) ==
    IF pc[w] \in {"computed", "opened"} \/ Returned(w) THEN {out[w].new_text} ELSE {}

\* a read_note that overlapped a write of the note returned the text before
\* the write or the text the write put
ReadsWhole ==
    \A c \in Callers, w \in Callers :
        (arg[c].op = "read_note" /\ Returned(c) /\ arg[w].op \in WriteOps) =>
            out[c].value \in {last.value} \cup Puts(w)

\* after two writes of the note the file holds the text one of them put
LastWriteWins ==
    \A c \in Callers : \A w \in Callers \ {c} :
        (arg[c].op \in WriteOps /\ arg[w].op \in WriteOps /\ Returned(c) /\ Returned(w)) =>
            files[RaceNote] \in {out[c].new_text, out[w].new_text}

\* C23: a read_note that overlaps a write of the same note by another caller
\* returns the complete text before the write or the complete text after
\* it, never an empty or partial text; after two overlapping writes of the
\* same note the file holds the complete output of one of them.
C23_Overlap == ReadsWhole /\ LastWriteWins

\* C25: of two callers that create the same new note at once at most one
\* succeeds, the other fails with the already-exists error, and the file
\* holds the text of the one that succeeded.
C25_CreateOnce ==
    \A c \in Callers : \A w \in Callers \ {c} :
        (arg[c].op = "create_note" /\ arg[w].op = "create_note"
         /\ pc[c] = "done" /\ pc[w] = "done" /\ Returned(c)) =>
            /\ out[w].status = "FileExistsError"
            /\ files[out[c].full_path] = out[c].new_text

\* ------------------------------------------------------------------------
\* The walk of get_vault_structure, one entry at a time, on vaults with
\* symbolic links to the directory that holds them or to one above it.
\* Here arg is the stack of the calls of build_tree, each with the sorted
\* entries of its directory and the position of the loop in them, and out
\* counts the nodes of the tree and the deepest nesting reached.
\* ------------------------------------------------------------------------

\* a link in the root to the root, and a link in "d" to the root above it
CycleSelf == <<"v", "ld">> :> <<"v">>

CycleUp == <<"v", "d", "ld">> :> <<"v">>

CycleLayouts == {<<>>, CycleSelf, CycleUp, CycleSelf @@ CycleUp, FileLink @@ DirLink}

\* the deepest nesting of build_tree calls the model lets happen
MaxWalkDepth == 2 * MaxSymlinks + 3

\* a call of build_tree(path) at the start of its loop
Frame(path) == [path |-> path, items |-> Shown(path), i |-> 1]

NoWalk == [op |-> "none", status |-> "running", nodes |-> 0, depth |-> 0]

InitWalk ==
    /\ dirs = InitDirs
    /\ \E u \in {<<>>, <<"v", "d", "n.md">> :> PlainText} :
          files = (<<"v", "n.md">> :> PlainText) @@ u @@ (<<"o", "n.md">> :> SecretText)
    /\ links \in CycleLayouts
    /\ vault_path = VaultDir
    /\ pc = "ready"
    /\ last = NoCall
    /\ writes = 0
    /\ arg = <<>>
    /\ out = NoWalk

\* get_vault_structure calls build_tree(self.vault_path)
WalkCall ==
    /\ pc = "ready"
    /\ pc' = "walking"
    /\ arg' = <<Frame(vault_path)>>
    /\ out' = [NoWalk EXCEPT !.op = "get_vault_structure", !.nodes = 1, !.depth = 1]
    /\ UNCHANGED <<vault_path, dirs, files, links, last, writes>>

\* the frames with the loop of the innermost call moved to its next entry
Advanced == [arg EXCEPT ![Len(arg)].i = @ + 1]

\* one turn of the loop of the innermost call of build_tree
WalkItem ==
    /\ pc = "walking"
    /\ arg[Len(arg)].i <= Len(arg[Len(arg)].items)
    /\ \E item \in {arg[Len(arg)].items[arg[Len(arg)].i]} :
          IF is_dir(item)
          THEN /\ Len(arg) < MaxWalkDepth
               /\ arg' = Append(Advanced, Frame(item))
               /\ out' = [out EXCEPT !.nodes = @ + 1,
                                     !.depth = Max(@, Len(arg) + 1)]
          ELSE /\ arg' = Advanced
               /\ out' = [out EXCEPT !.nodes = IF Last(item) \in MdNames
                                               THEN @ + 1 ELSE @]
    /\ UNCHANGED <<vault_path, pc, dirs, files, links, last, writes>>

\* the innermost call returns its node; the outermost ends the operation
WalkReturn ==
    /\ pc = "walking"
    /\ arg[Len(arg)].i > Len(arg[Len(arg)].items)
    /\ arg' = SubSeq(arg, 1, Len(arg) - 1)
    /\ pc' = IF Len(arg) = 1 THEN "done" ELSE "walking"
    /\ out' = [out EXCEPT !.status = IF Len(arg) = 1 THEN "ok" ELSE @]
    /\ UNCHANGED <<vault_path, dirs, files, links, last, writes>>

NextWalk == WalkCall \/ WalkItem \/ WalkReturn

\* a call that has begun runs on: the server runs one tool call to its end
SpecWalk == InitWalk /\ [][NextWalk]_vars /\ WF_vars(NextWalk)

\* ------------------------------------------------------------------------
\* Claims about the walk
\* ------------------------------------------------------------------------

\* the vault has a link to the directory that holds it or to one above it
HasCycle == \E l \in DOMAIN links : l # links[l] /\ IsUnder(l, links[l])

\* C24: get_vault_structure terminates for every vault, also one in which a
\* symbolic link points to the directory that holds it or to one above it:
\* the nesting of build_tree calls stays bounded and the call returns.
C24_Terminates == <>(pc = "done" /\ out.status = "ok")

\* the walk returned on a vault with two such links, after it went through
\* them as deep as the kernel resolves
C24_Witness ==
    /\ pc = "done"
    /\ links = CycleSelf @@ CycleUp
    /\ out.depth > MaxSymlinks

\* the nesting never reaches the depth the model stops at
WalkDepthBounded == Len(arg) <= 2 * MaxSymlinks + 2

\* ------------------------------------------------------------------------
\* Claims that relate list_tags and find_by_tag
\* ------------------------------------------------------------------------
SeqRange(q) == {q[i] : i \in 1..Len(q)}

\* the tags list_tags reports
Reported(order) == {e.tag : e \in SeqRange(list_tags(order))}

\* the notes in which the scan of list_tags finds the tag
FoundIn(tag, order) ==
    {RelativeTo(p, vault_path) :
        p \in {q \in SeqRange(order) : tag \in SeqRange(tag_findall(TextOf(q), 1))}}

\* the non-empty strings of word characters asked for
WordQueries == UNION {[1..k -> {"x", "y"}] : k \in 1..3}

\* C26: list_tags and find_by_tag agree: for a tag t that list_tags reports,
\* find_by_tag(t) returns exactly the notes in which list_tags found t, and
\* for a non-empty string of word characters that list_tags does not
\* report, find_by_tag returns no note.
C26_TagsAgree ==
    out.op \in {"list_tags", "find_by_tag"} =>
        /\ \A t \in Reported(arg.order) :
              {e.path : e \in SeqRange(find_by_tag(t, arg.order))} = FoundIn(t, arg.order)
        /\ \A t \in WordQueries \ Reported(arg.order) :
              find_by_tag(t, arg.order) = <<>>

\* list_tags reported x and xy, and find_by_tag of x gives the one note with
\* #x, not the note with #xy
C26_Witness ==
    /\ out.op = "list_tags"
    /\ {e.tag : e \in SeqRange(out.value)} = {<<"x">>, <<"x", "y">>}
    /\ FoundIn(<<"x", "y">>, arg.order) = {<<"n.md">>}
    /\ {e.path : e \in SeqRange(find_by_tag(<<"x">>, arg.order))} = {<<"d", "n.md">>}

\* ------------------------------------------------------------------------
\* Calls with texts that cannot be written: the vault is ready, and the
\* bodies include one with a surrogate on its own (as json.loads gives for
\* the escape \ud83d)
\* ------------------------------------------------------------------------
FramePaths == {<<"n.md">>, <<"d", "n.md">>, <<"d", "d", "n.md">>, <<"ld", "n.md">>}

FrameBodies == {PlainText, <<"x", Surrogate>>}

InitFrame ==
    /\ dirs = InitDirs
    /\ \E t \in {PlainText, HeaderText}, u \in {<<>>, <<"v", "d", "n.md">> :> PlainText} :
          files = (<<"v", "n.md">> :> t) @@ u @@ (<<"o", "n.md">> :> SecretText)
    /\ links \in LinkLayouts
    /\ vault_path = VaultDir
    /\ pc = "ready"
    /\ last = NoCall
    /\ writes = 0
    /\ arg = NoArg
    /\ out = NoOut

FrameCreate ==
    \E f \in FramePaths, b \in FrameBodies, m \in CallMetas :
        \E r \in {create_note(f, b, m)} : Call("create_note", f, r)

FrameEdit ==
    \E f \in FramePaths, b \in FrameBodies :
        \E r \in {edit_note(f, b)} : Call("edit_note", f, r)

FrameUpdate ==
    \E f \in FramePaths, m \in CallMetas :
        \E r \in {update_frontmatter(f, m)} : Call("update_frontmatter", f, r)

\* the operations that write nothing
FrameRead ==
    \/ \E f \in FramePaths : \E r \in {read_note(f)} : Call("read_note", f, r)
    \/ \E f \in FramePaths : \E r \in {read_frontmatter(f)} : Call("read_frontmatter", f, r)
    \/ \E f \in {<<>>, <<"d">>} : \E r \in {list_notes(f)} : Call("list_notes", f, r)
    \/ \E q \in Queries : \E r \in {search_vault(q)} : Call("search_vault", <<>>, r)
    \/ \E r \in {get_vault_structure} : Call("get_vault_structure", <<>>, r)

NextFrame == FrameCreate \/ FrameEdit \/ FrameUpdate \/ FrameRead

SpecFrame == InitFrame /\ [][NextFrame]_vars

\* ------------------------------------------------------------------------
\* Claims about what a call changes
\* ------------------------------------------------------------------------
ChangingOps == {"create_note", "edit_note", "update_frontmatter"}

\* the step keeps every note, and keeps the text of every note but the one
\* at the target of the call
OthersKept ==
    \A f \in DOMAIN files :
        /\ f \in DOMAIN files'
        /\ f # last'.target => files'[f] = files[f]

\* the step of a failed call or of a read-only operation changes nothing
NothingChanged ==
    (last'.status # "ok" \/ last'.op \notin ChangingOps) =>
        files' = files /\ dirs' = dirs

\* the step creates no note but the one at the target, and directories only
\* in create_note
OnlyTarget ==
    /\ DOMAIN files' \subseteq DOMAIN files \cup {last'.target}
    /\ last'.op # "create_note" => dirs' = dirs
    /\ dirs \subseteq dirs'

\* C27: a successful create_note, edit_note or update_frontmatter changes
\* the text of at most the note at its resolved target (create_note may also
\* create the missing parent directories), a failed call and a read-only
\* operation change nothing, and no operation deletes a note or changes the
\* text of a note other than its target.
C27_Frame == [][OthersKept /\ NothingChanged /\ OnlyTarget]_vars

\* the same for the calls whose text can be encoded
C27_FrameEncodable ==
    [][last'.status # "UnicodeEncodeError" =>
          OthersKept /\ NothingChanged /\ OnlyTarget]_vars

\* a failed call never changes a note other than its target and deletes none
C27_FailedKeepsOthers == [][OthersKept /\ OnlyTarget]_vars

====
